---- MODULE Spec2Model ----
(***************************************************************************)
(* A model of the trading bot: the trade-execution pipeline of             *)
(* src/bot/tradingBot.ts (executeTrade, executeOptionsTrade,               *)
(* validateTrade, buy, sell, updateConfig), the brokerage helpers it calls *)
(* (alpacaService: getPosition, getOptionsChain, findBestOptionsContract,  *)
(* createOrder, createOptionsOrder, isMarketOpen) and the scheduler of     *)
(* src/bot/scheduler.ts (start, stop, executeCallback, shouldRun,          *)
(* isMarketOpen, isWithinTradingHours, isTimeBetween), with the bot's      *)
(* initialize/start around it, and the strategy registry and signal        *)
(* aggregation of strategyService (analyzeSymbol, getBestDecision,         *)
(* getConsensusDecision, updateStrategyConfig).                            *)
(*                                                                         *)
(* An async function is cut at its awaits: one action runs the code from   *)
(* one await to the next, and the brokerage answers in between.  Optional  *)
(* values (quantity?, position?, error?) are sets with at most one         *)
(* element: {} is undefined/null.                                          *)
(***************************************************************************)
EXTENDS Integers, Sequences, FiniteSets, TLC

VARIABLES
    config,      \* tradingBot.ts `config` (BotConfig, the fields the pipeline reads)
    brokerPos,   \* the brokerage's positions: symbol -> held quantity (0: none, 404)
    runs,        \* the executeTrade / buy / sell invocations in flight or returned
    schedConfig, \* scheduler.ts `config` (ScheduleConfig)
    status,      \* scheduler.ts `status` (BotStatus)
    intervalId,  \* scheduler.ts `intervalId`: {} or the armed timer
    timers,      \* the interval timers armed in the runtime (setInterval, not cleared):
                 \* [id, intervalMs, armedAt], the period and time of setInterval
    callback,    \* scheduler.ts `callback`: {} or the registered callback
    startResult, \* how the last scheduler.start() call ended
    now,         \* the wall clock: [ms, day, hh, mm]
    ticks,       \* the executeCallback invocations in flight or finished
    isInitialized, \* tradingBot.ts `isInitialized`
    botStarts,   \* the tradingBot start() invocations: where each one is
    windowCall,  \* the last isTimeBetween call: its arguments and its result
    sessionCall, \* the last getTimeUntilNextSession call: its clock and its result
    hoursCall,   \* the last isTimeInTradingHours call: its Date, the schedule, its result
    strategies,  \* strategyService `strategies`: name -> config (enabled, minConfidence)
    analysis,    \* the analyzeSymbol invocation in flight or returned
    selection,   \* the last getBestDecision / getConsensusDecision call
    metrics,     \* tradingBot.ts `metrics` (BotMetrics)
    lastTradeTime, \* tradingBot.ts `lastTradeTime`: {} or the time of the last trade
    cycles       \* the runTradingCycle invocations in flight or finished

cycleVars == <<metrics, lastTradeTime, cycles>>
\* The state of tradingBot.ts and of the brokerage behind it.
tradeVars == <<config, brokerPos, runs, cycleVars>>
schedVars == <<schedConfig, status, intervalId, timers, callback, startResult,
               now, ticks>>
botVars == <<isInitialized, botStarts>>
windowVars == <<windowCall, sessionCall, hoursCall>>
strategyVars == <<strategies, analysis, selection>>
\* What the pipeline's operations leave alone, and what the scheduler's do.
nonTradeVars == <<schedVars, botVars, windowVars, strategyVars, cycleVars>>
nonSchedVars == <<tradeVars, botVars, windowVars, strategyVars>>
vars == <<config, brokerPos, runs,
          schedConfig, status, intervalId, timers, callback, startResult,
          now, ticks, isInitialized, botStarts, windowCall, sessionCall, hoursCall,
          strategies, analysis, selection, metrics, lastTradeTime, cycles>>

----------------------------------------------------------------------------
(* Bounds of the model *)

MaxRuns == 1     \* pipeline invocations that can be in flight together
MaxQty == 2      \* largest requested quantity
MaxHeld == 2     \* largest held quantity
MaxChain == 2    \* longest derivative chain the brokerage returns
MaxTicks == 2    \* scheduler ticks that can be in flight together
MaxTotalRuns == 2 \* ticks begun before the model stops arming new ones
MaxClock == 2    \* times the model lets the wall clock advance
MaxBotStarts == 2 \* tradingBot start() calls that can be in flight together
MaxRules == 2    \* rules of the registry the model evaluates (the first ones)
MaxSignals == 3  \* longest signal list handed to the aggregation functions
MaxSymbols == 2  \* symbols of config.symbols a cycle goes through (the first ones)
MaxCycles == 2   \* runTradingCycle invocations the model follows

Symbols == {"AAPL"}
\* config.symbols as loaded, and the part of it the model's cycles process.
DefaultSymbols == <<"AAPL", "MSFT", "GOOGL", "TSLA", "AMZN">>
ConfiguredSymbols == SubSeq(DefaultSymbols, 1, MaxSymbols)
Watched == { ConfiguredSymbols[k] : k \in 1..Len(ConfiguredSymbols) }
CycleIds == 1..MaxCycles
RunIds == 1..MaxRuns
TickIds == 1..MaxTicks
BotStartIds == 1..MaxBotStarts

\* quantity?: undefined, or a number (0 and negatives included: buy()/sell() and
\* the rules pass whatever they are given)
Quantities == {{}} \cup {{q} : q \in (-1)..MaxQty}

\* position.qty as the brokerage reports it: negative for a short position
HeldQuantities == (-1)..MaxHeld

----------------------------------------------------------------------------
(* Values *)

\* A reason text; the templated ones carry the symbol and the quantity.
Msg(text) == [text |-> text, symbol |-> "", qty |-> 0]
MsgPos(text, symbol, qty) == [text |-> text, symbol |-> symbol, qty |-> qty]

\* AlpacaPosition | undefined for `symbol`, from a held quantity.
PositionOf(symbol, held) ==
    IF held = 0 THEN {} ELSE {[symbol |-> symbol, qty |-> held]}

\* OptionsChain entries the brokerage can list for an underlying symbol.
Contract(underlying, type, tradable, st, oi, strike, close) ==
    [symbol |-> underlying \o "_" \o type \o "_" \o ToString(strike),
     underlying_symbol |-> underlying, type |-> type,
     tradable |-> tradable, status |-> st, open_interest |-> oi,
     strike_price |-> strike, close_price |-> close]

ContractPool(s) ==
    { Contract(s, "call", TRUE, "active", 20, 100, 5),
      Contract(s, "call", TRUE, "active", 20, 90, 7),
      Contract(s, "put", TRUE, "active", 15, 95, 3),
      Contract(s, "call", TRUE, "active", 5, 80, 9),
      Contract(s, "call", FALSE, "inactive", 50, 85, 0) }

\* The chains getOptionsChain can return: lists without repetition.
Chains(s) ==
    UNION { { c \in [1..n -> ContractPool(s)] :
                \A i, j \in 1..n : i # j => c[i] # c[j] } : n \in 0..MaxChain }

----------------------------------------------------------------------------
(* alpacaService.findBestOptionsContract *)

\* A contract filter without the strike limit.
PassesFilterAnyStrike(option, optionType, maxStrikePrice, minOpenInterest) ==
    /\ option.type = optionType
    /\ option.tradable
    /\ option.status = "active"
    /\ option.open_interest >= minOpenInterest

PassesFilter(option, optionType, maxStrikePrice, minOpenInterest) ==
    /\ option.type = optionType
    /\ option.tradable
    /\ option.status = "active"
    /\ option.open_interest >= minOpenInterest
    /\ \/ maxStrikePrice = {}
       \/ \E m \in maxStrikePrice : m = 0 \/ option.strike_price <= m

\* The comparator of the sort: negative when a sorts before b.
CompareOptions(a, b, optionType) ==
    IF b.open_interest - a.open_interest # 0
    THEN b.open_interest - a.open_interest
    ELSE IF optionType = "call"
         THEN a.strike_price - b.strike_price
         ELSE b.strike_price - a.strike_price

\* filter, stable sort, first element: the index of the survivor no other
\* survivor sorts before, the earliest of the list among equals.
findBestOptionsContract(options, optionType, maxStrikePrice, minOpenInterest) ==
    LET kept == { i \in 1..Len(options) :
                    PassesFilter(options[i], optionType, maxStrikePrice,
                                 minOpenInterest) }
        first == { i \in kept :
                    \A j \in kept :
                       LET c == CompareOptions(options[i], options[j], optionType)
                       IN  c < 0 \/ (c = 0 /\ i <= j) }
    IN  { options[i] : i \in first }

----------------------------------------------------------------------------
(* tradingBot.validateTrade *)

\* A position test that lets every position through.
HasPositionNever(position) == FALSE

\* `position && parseFloat(position.qty) > 0`
HasPosition(position) == \E p \in position : p.qty > 0

\* A quantity test that only rejects a missing quantity.
InvalidQuantityMissingOnly(quantity) == quantity = {}

\* `!quantity || quantity <= 0`
InvalidQuantity(quantity) == quantity = {} \/ \E q \in quantity : q <= 0

\* A sell test that only looks for the position, not its size.
InsufficientSharesNoCompare(quantity, position) == position = {}

\* `!position || parseFloat(position.qty) < quantity`
InsufficientShares(quantity, position) ==
    position = {} \/ \E p \in position, q \in quantity : p.qty < q

validateTrade(symbol, action, quantity, position) ==
    IF InvalidQuantity(quantity)
    THEN [valid |-> FALSE, reason |-> Msg("Invalid quantity")]
    ELSE IF action = "sell" /\ InsufficientShares(quantity, position)
    THEN [valid |-> FALSE, reason |-> Msg("Insufficient shares to sell")]
    ELSE IF action = "buy" /\ HasPosition(position)
    THEN [valid |-> FALSE,
          reason |-> MsgPos("Already have position in", symbol,
                            (CHOOSE p \in position : TRUE).qty)]
    ELSE [valid |-> TRUE, reason |-> Msg("Trade validated")]

----------------------------------------------------------------------------
(* The trade-execution pipeline: tradingBot.executeTrade and               *)
(* executeOptionsTrade, cut at their awaits.                               *)

\* A pipeline invocation.  pc is the await it is suspended on; calls are the
\* brokerage calls made inside executeTrade so far, failed those that threw,
\* request the order submitted (createOrder / createOptionsOrder) and
\* atCall the dryRun and useOptions flags in force when it was submitted,
\* atEntry those in force when executeTrade was entered, dryRunSeen every
\* value dryRun had at a step of the invocation inside executeTrade.
IdleRun ==
    [pc |-> "idle", origin |-> "none", symbol |-> "", action |-> "none",
     quantity |-> {}, reason |-> Msg(""), position |-> {}, path |-> "none",
     chain |-> "none", bestOption |-> {}, recheck |-> "none", request |-> {},
     atEntry |-> {}, atCall |-> {}, dryRunSeen |-> {}, calls |-> <<>>,
     failed |-> {}, outcome |-> {}]

\* TradeResult
TradeResult(success, orderId, symbol, action, quantity, price, reason, error) ==
    [success |-> success, orderId |-> orderId, symbol |-> symbol,
     action |-> action, quantity |-> quantity, price |-> price,
     reason |-> reason, error |-> error]

\* `return {...}`: the invocation resolves with a TradeResult.
Return(r, cfg, result) ==
    [r EXCEPT !.pc = "returned", !.outcome = {result}]

\* `quantity || d`
QuantityOr(quantity, d) ==
    IF quantity = {} \/ 0 \in quantity THEN d ELSE CHOOSE q \in quantity : TRUE

\* A catch block that rethrows instead of returning a failed outcome.
CaughtRethrows(r, cfg, call, errorMessage, qty) ==
    [r EXCEPT !.pc = "thrown", !.failed = @ \cup {call}]

\* The catch block of executeTrade / executeOptionsTrade: `errorMessage`.
Caught(r, cfg, call, errorMessage, qty) ==
    Return([r EXCEPT !.failed = @ \cup {call}], cfg,
           TradeResult(FALSE, {}, r.symbol, r.action, qty, 0, r.reason,
                       {errorMessage}))

\* A routing test that sends sells to the derivative path too.
RoutesToOptionsAnyAction(cfg, action) == cfg.useOptions

\* `config.useOptions && action === "buy"`
RoutesToOptions(cfg, action) == cfg.useOptions /\ action = "buy"

\* A dry-run test that is never taken.
IsDryRunNever(cfg) == FALSE

\* `if (config.dryRun)`
IsDryRun(cfg) == cfg.dryRun

\* A derivative path that fetches the chain before looking at the position.
executeOptionsTradeFetchFirst(r0, cfg) ==
    [r0 EXCEPT !.path = "options", !.pc = "awaitChain",
               !.calls = Append(@, "getOptionsChain")]

\* executeOptionsTrade up to `await alpacaService.getOptionsChain(symbol)`
executeOptionsTrade(r0, cfg) ==
    LET r == [r0 EXCEPT !.path = "options"] IN
    IF r.action = "buy" /\ HasPosition(r.position)
    THEN Return(r, cfg,
            TradeResult(FALSE, {}, r.symbol, r.action, 0, 0,
                        MsgPos("Already have position in", r.symbol,
                               (CHOOSE p \in r.position : TRUE).qty),
                        {"Position already exists"}))
    ELSE [r EXCEPT !.pc = "awaitChain",
                   !.calls = Append(@, "getOptionsChain")]

\* executeOptionsTrade from the dry-run test to
\* `await alpacaService.createOptionsOrder(optionsOrderRequest)`
SubmitOptionsOrder(r, cfg) ==
    LET bestOption == CHOOSE o \in r.bestOption : TRUE IN
    IF IsDryRun(cfg)
    THEN Return(r, cfg,
            TradeResult(TRUE, {}, bestOption.symbol, r.action, 1,
                        bestOption.close_price, r.reason, {}))
    ELSE [r EXCEPT !.pc = "awaitOptionsOrder",
                   !.request = {[api |-> "createOptionsOrder",
                                 symbol |-> bestOption.symbol, qty |-> {1},
                                 side |-> r.action, type |-> "market",
                                 time_in_force |-> "day"]},
                   !.atCall = {[dryRun |-> cfg.dryRun,
                                useOptions |-> cfg.useOptions]},
                   !.calls = Append(@, "createOptionsOrder")]

\* executeOptionsTrade from the chain's arrival to
\* `await alpacaService.getPosition(symbol)`
AfterChain(r, cfg, optionsChain) ==
    IF Len(optionsChain) = 0
    THEN Return([r EXCEPT !.chain = "empty"], cfg,
            TradeResult(FALSE, {}, r.symbol, r.action, 0, 0,
                        Msg("No options available for this symbol"),
                        {"No options chain found"}))
    ELSE LET bestOption == findBestOptionsContract(optionsChain, cfg.optionType,
                                cfg.maxStrikePrice, cfg.minVolume)
             r1 == [r EXCEPT !.chain = "listed",
                             !.bestOption = bestOption]
         IN  IF bestOption = {}
             THEN Return(r1, cfg,
                    TradeResult(FALSE, {}, r.symbol, r.action, 0, 0,
                        MsgPos("No suitable options found", cfg.optionType, 0),
                        {"No suitable options contract"}))
             ELSE IF r.action = "buy"
             THEN [r1 EXCEPT !.pc = "awaitRecheck",
                             !.calls = Append(@, "getPosition")]
             ELSE SubmitOptionsOrder(r1, cfg)

\* executeOptionsTrade from the answer of getPosition on: `existing` is the
\* position found ({} for null), `threw` a failed lookup, which the inner
\* catch swallows.
AfterRecheck(r, cfg, threw, existing) ==
    IF threw
    THEN SubmitOptionsOrder([r EXCEPT !.recheck = "failed",
                                      !.failed = @ \cup {"getPosition"}], cfg)
    ELSE IF HasPosition(existing)
    THEN Return([r EXCEPT !.recheck = "held"], cfg,
            TradeResult(FALSE, {}, r.symbol, r.action, 0, 0,
                        MsgPos("Already have position in underlying stock",
                               r.symbol, (CHOOSE p \in existing : TRUE).qty),
                        {"Underlying stock position already exists"}))
    ELSE SubmitOptionsOrder([r EXCEPT !.recheck = "clear"], cfg)

\* A stock path that validates before it looks at dry-run.
StockTradeValidatesFirst(r0, cfg) ==
    LET r == [r0 EXCEPT !.path = "stock"]
        validation == validateTrade(r.symbol, r.action, r.quantity, r.position)
    IN  IF ~validation.valid
        THEN Return(r, cfg,
                TradeResult(FALSE, {}, r.symbol, r.action,
                            QuantityOr(r.quantity, 0), 0, validation.reason,
                            {validation.reason.text}))
        ELSE Return(r, cfg,
                TradeResult(TRUE, {}, r.symbol, r.action,
                            QuantityOr(r.quantity, 1), 0, r.reason, {}))

\* executeTrade from the dry-run test on (the stock path) to
\* `await alpacaService.createOrder(orderRequest)`
StockTrade(r0, cfg) ==
    LET r == [r0 EXCEPT !.path = "stock"] IN
    IF IsDryRun(cfg)
    THEN Return(r, cfg,
            TradeResult(TRUE, {}, r.symbol, r.action, QuantityOr(r.quantity, 1),
                        0, r.reason, {}))
    ELSE LET validation == validateTrade(r.symbol, r.action, r.quantity,
                                         r.position)
         IN  IF ~validation.valid
             THEN Return(r, cfg,
                    TradeResult(FALSE, {}, r.symbol, r.action,
                                QuantityOr(r.quantity, 0), 0, validation.reason,
                                {validation.reason.text}))
             ELSE [r EXCEPT !.pc = "awaitOrder",
                            !.request = {[api |-> "createOrder",
                                          symbol |-> r.symbol,
                                          qty |-> r.quantity, side |-> r.action,
                                          type |-> "market",
                                          time_in_force |-> "day"]},
                            !.atCall = {[dryRun |-> cfg.dryRun,
                                         useOptions |-> cfg.useOptions]},
                            !.calls = Append(@, "createOrder")]

\* executeTrade up to its first await
executeTrade(r0, cfg) ==
    LET r == [r0 EXCEPT !.atEntry = {[dryRun |-> cfg.dryRun,
                                      useOptions |-> cfg.useOptions]}]
    IN  IF RoutesToOptions(cfg, r.action)
        THEN executeOptionsTrade(r, cfg)
        ELSE StockTrade(r, cfg)

----------------------------------------------------------------------------
(* Initial state: the module-level state of tradingBot.ts and scheduler.ts *)
(* after module load (initializeBot(), initializeScheduler()).             *)

InitConfig ==
    [symbols |-> ConfiguredSymbols, useConsensus |-> TRUE,
     dryRun |-> FALSE, useOptions |-> TRUE, optionType |-> "call",
     maxStrikePrice |-> {}, minVolume |-> 10]

InitTrade ==
    /\ config = InitConfig
    /\ brokerPos \in [Symbols \cup Watched -> HeldQuantities]
    /\ runs = [i \in RunIds |-> IdleRun]

----------------------------------------------------------------------------
(* Operations of the pipeline *)

Resolved(r) == r.pc \in {"idle", "returned", "thrown"}

\* A new invocation takes the first free slot.
FreeSlot(i) ==
    /\ Resolved(runs[i])
    /\ \A j \in RunIds : j < i => ~Resolved(runs[j])

NewRun(origin, symbol, action, quantity, reason) ==
    [IdleRun EXCEPT !.origin = origin, !.symbol = symbol, !.action = action,
                    !.quantity = quantity, !.reason = reason]

\* The invocation after a step made under cfg: dryRunSeen follows.
Observed(after, cfg) ==
    [after EXCEPT !.dryRunSeen = IF after.atEntry = {} THEN {}
                                 ELSE @ \cup {cfg.dryRun}]

\* A step of invocation i that takes it from `before` to `after`.
StepRun(i, after) ==
    /\ runs' = [runs EXCEPT ![i] = Observed(after, config)]
    /\ UNCHANGED <<config, brokerPos>>

\* tradingBot.buy(symbol, quantity, reason), up to
\* `await alpacaService.getPosition(symbol)`
Buy(i, symbol, quantity) ==
    /\ FreeSlot(i)
    /\ StepRun(i,
               [NewRun("buy", symbol, "buy", {quantity}, Msg("Manual buy"))
                   EXCEPT !.pc = "awaitManualPosition"])
    /\ UNCHANGED nonTradeVars

\* tradingBot.sell(symbol, quantity, reason), up to
\* `await alpacaService.getPosition(symbol)`
Sell(i, symbol, quantity) ==
    /\ FreeSlot(i)
    /\ StepRun(i,
               [NewRun("sell", symbol, "sell", {quantity}, Msg("Manual sell"))
                   EXCEPT !.pc = "awaitManualPosition"])
    /\ UNCHANGED nonTradeVars

\* buy()/sell() resume: getPosition answered (the position, or null on a 404)
\* and executeTrade runs to its first await; or getPosition threw, and
\* buy()/sell() rejects, the lookup being outside executeTrade's try.
ManualPositionAnswers(i) ==
    /\ runs[i].pc = "awaitManualPosition"
    /\ \/ LET r == [runs[i] EXCEPT
                      !.position = PositionOf(runs[i].symbol,
                                              brokerPos[runs[i].symbol])]
          IN  StepRun(i, executeTrade(r, config))
       \/ StepRun(i, [runs[i] EXCEPT !.pc = "thrown"])
    /\ UNCHANGED nonTradeVars

\* processSymbol's call `executeTrade(symbol, finalDecision, position)`: the
\* decision is a buy or a sell of any quantity, the position the entry of the
\* cycle's positions snapshot, which the brokerage may have moved on from.
CycleTrade(i, symbol, action, quantity, held) ==
    /\ FreeSlot(i)
    /\ LET r == [NewRun("cycle", symbol, action, quantity, Msg("strategy"))
                    EXCEPT !.position = PositionOf(symbol, held)]
       IN  StepRun(i, executeTrade(r, config))
    /\ UNCHANGED nonTradeVars

\* alpacaService.getOptionsChain answers: a list of contracts, or it throws
\* (a failed request, or a body without option_contracts).
ChainAnswers(i) ==
    /\ runs[i].pc = "awaitChain"
    /\ \/ \E optionsChain \in Chains(runs[i].symbol) :
             StepRun(i, AfterChain(runs[i], config, optionsChain))
       \/ StepRun(i,
                  Caught(runs[i], config, "getOptionsChain",
                         "getOptionsChain failed", 0))
    /\ UNCHANGED nonTradeVars

\* alpacaService.getPosition answers inside executeOptionsTrade.
RecheckAnswers(i) ==
    /\ runs[i].pc = "awaitRecheck"
    /\ \/ StepRun(i,
                  AfterRecheck(runs[i], config, FALSE,
                               PositionOf(runs[i].symbol,
                                          brokerPos[runs[i].symbol])))
       \/ StepRun(i, AfterRecheck(runs[i], config, TRUE, {}))
    /\ UNCHANGED nonTradeVars

\* executeTrade from the answer of createOrder on: the success outcome with
\* the order's id, or the catch block when the call threw.
AfterOrder(r, cfg, threw) ==
    IF threw
    THEN Caught(r, cfg, "createOrder", "createOrder failed",
                QuantityOr(r.quantity, 0))
    ELSE Return(r, cfg,
                TradeResult(TRUE, {"order"}, r.symbol, r.action,
                            QuantityOr(r.quantity, 0), 0, r.reason, {}))

\* executeOptionsTrade from the answer of createOptionsOrder on.
AfterOptionsOrder(r, cfg, threw) ==
    LET bestOption == CHOOSE o \in r.bestOption : TRUE IN
    IF threw
    THEN Caught(r, cfg, "createOptionsOrder", "createOptionsOrder failed", 0)
    ELSE Return(r, cfg,
                TradeResult(TRUE, {"order"}, bestOption.symbol, r.action, 1,
                            bestOption.close_price, r.reason, {}))

\* alpacaService.createOrder answers: the order, or it throws.
OrderAnswers(i) ==
    /\ runs[i].pc = "awaitOrder"
    /\ \/ StepRun(i, AfterOrder(runs[i], config, FALSE))
       \/ StepRun(i, AfterOrder(runs[i], config, TRUE))
    /\ UNCHANGED nonTradeVars

\* alpacaService.createOptionsOrder answers: the order, or it throws.
OptionsOrderAnswers(i) ==
    /\ runs[i].pc = "awaitOptionsOrder"
    /\ \/ StepRun(i, AfterOptionsOrder(runs[i], config, FALSE))
       \/ StepRun(i, AfterOptionsOrder(runs[i], config, TRUE))
    /\ UNCHANGED nonTradeVars

\* tradingBot.updateConfig(newConfig): `config = {...config, ...newConfig}`
ConfigUpdates ==
    [dryRun : BOOLEAN, useOptions : BOOLEAN, optionType : {"call", "put"},
     maxStrikePrice : {{}}]

UpdateConfig(newConfig) ==
    /\ config' = [field \in DOMAIN config |->
                     IF field \in DOMAIN newConfig
                     THEN newConfig[field] ELSE config[field]]
    /\ config' # config
    /\ UNCHANGED <<brokerPos, runs>>
    /\ UNCHANGED nonTradeVars

\* The brokerage's position in a symbol changes (a fill, another client).
PositionChanges(symbol, held) ==
    /\ brokerPos[symbol] # held
    /\ brokerPos' = [brokerPos EXCEPT ![symbol] = held]
    /\ UNCHANGED <<config, runs>>
    /\ UNCHANGED nonTradeVars

NextTrade ==
    \/ \E i \in RunIds, s \in Symbols, q \in (-1)..MaxQty : Buy(i, s, q)
    \/ \E i \in RunIds, s \in Symbols, q \in (-1)..MaxQty : Sell(i, s, q)
    \/ \E i \in RunIds : ManualPositionAnswers(i)
    \/ \E i \in RunIds, s \in Symbols, a \in {"buy", "sell"},
          q \in Quantities, h \in HeldQuantities : CycleTrade(i, s, a, q, h)
    \/ \E i \in RunIds : ChainAnswers(i)
    \/ \E i \in RunIds : RecheckAnswers(i)
    \/ \E i \in RunIds : OrderAnswers(i)
    \/ \E i \in RunIds : OptionsOrderAnswers(i)
    \/ \E c \in ConfigUpdates : UpdateConfig(c)
    \/ \E s \in Symbols, h \in HeldQuantities : PositionChanges(s, h)

----------------------------------------------------------------------------
(* The scheduler (scheduler.ts).  A time of day "HH:MM" is the pair        *)
(* <<HH, MM>>; the wall clock is [ms, day, hh, mm]: Date.now(), getDay()   *)
(* and the time of day formatTime renders.                                 *)

DefaultIntervalMs == 30000
LongIntervalMs == 3600000
\* intervalMs as loaded: BOT_INTERVAL_MS, or the default.
IntervalChoices == {DefaultIntervalMs, LongIntervalMs}

InitSchedConfig ==
    [intervalMs |-> DefaultIntervalMs,
     tradingStartTime |-> <<9, 30>>, tradingEndTime |-> <<16, 0>>,
     tradingDays |-> {1, 2, 3, 4, 5},
     preMarketStart |-> {<<4, 0>>}, afterHoursEnd |-> {<<20, 0>>}]

InitStatus ==
    [isRunning |-> FALSE, isMarketOpen |-> FALSE, totalRuns |-> 0,
     errors |-> 0, lastRun |-> {}, nextRun |-> {}, lastError |-> {},
     startTime |-> {}]

\* The times of day the model's clock shows: before the pre-market, in the
\* trading window, after hours, and late evening.
TimesOfDay == {<<2, 0>>, <<10, 0>>, <<18, 0>>, <<23, 0>>}
Weekdays == 0..6

\* `time.split(":").map(Number)`, `hours * 60 + minutes`
timeToMinutes(time) == time[1] * 60 + time[2]

\* date.toLocaleTimeString(..., {hour: "2-digit", minute: "2-digit"})
formatTime(date) == <<date.hh, date.mm>>

\* An isTimeBetween without the overnight branch.
isTimeBetweenNoWrap(currentTime, startTime, endTime) ==
    /\ timeToMinutes(currentTime) >= timeToMinutes(startTime)
    /\ timeToMinutes(currentTime) <= timeToMinutes(endTime)

isTimeBetween(currentTime, startTime, endTime) ==
    LET current == timeToMinutes(currentTime)
        start == timeToMinutes(startTime)
        end == timeToMinutes(endTime)
    IN  IF start <= end
        THEN current >= start /\ current <= end
        ELSE current >= start \/ current <= end

\* A trading-hours test that knows the regular session only.
isWithinTradingHoursRegularOnly(cfg, currentTime) ==
    isTimeBetween(currentTime, cfg.tradingStartTime, cfg.tradingEndTime)

isWithinTradingHours(cfg, currentTime) ==
    \/ isTimeBetween(currentTime, cfg.tradingStartTime, cfg.tradingEndTime)
    \/ \E preMarketStart \in cfg.preMarketStart :
          isTimeBetween(currentTime, preMarketStart, cfg.tradingStartTime)
    \/ \E afterHoursEnd \in cfg.afterHoursEnd :
          isTimeBetween(currentTime, cfg.tradingEndTime, afterHoursEnd)

\* The answers of GET /v2/clock: is_open true, is_open false, or a failed
\* request (network, authentication).
ClockResponses == {"open", "closed", "failed"}

\* alpacaService.isMarketOpen: `return response.data.is_open`, and
\* `return false` in its catch block; it never throws.
alpacaIsMarketOpen(response) ==
    [threw |-> FALSE, value |-> response = "open"]

\* A trading-day test that lets every day through.
IsTradingDayAlways(cfg, currentDay) == TRUE

\* `config.tradingDays.includes(currentDay)`
IsTradingDay(cfg, currentDay) == currentDay \in cfg.tradingDays

\* shouldRun after `await alpacaService.isMarketOpen()`: false when the
\* market is closed, the local time check when the call threw, else true.
ShouldRunAfterClock(cfg, answer, currentTime) ==
    IF answer.threw
    THEN isWithinTradingHours(cfg, currentTime)
    ELSE answer.value

\* scheduler.isMarketOpen after `await alpacaService.isMarketOpen()`
IsMarketOpenAfterClock(cfg, answer, date) ==
    IF answer.threw
    THEN IsTradingDay(cfg, date.day) /\ isWithinTradingHours(cfg, formatTime(date))
    ELSE answer.value

\* An executeCallback invocation (a tick).  trace lists its steps in the
\* order they happened; day, time and days are what shouldRun read (the
\* weekday, the formatted time, config.tradingDays); clockCalls counts the
\* brokerage market-open calls shouldRun made, clockFailed tells that the
\* request behind one failed, inWindow what the local time-window check gives
\* when the answer arrives; result is what shouldRun returned; at is
\* Date.now() and errorsBefore is status.errors when the tick began.
IdleTick ==
    [pc |-> "idle", trace |-> <<>>, day |-> 0, time |-> <<0, 0>>, days |-> {},
     clockCalls |-> 0, clockFailed |-> FALSE, inWindow |-> {}, result |-> {},
     threw |-> FALSE, at |-> 0, errorsBefore |-> 0]

InitSched ==
    /\ schedConfig \in {[InitSchedConfig EXCEPT !.intervalMs = intervalMs] :
                          intervalMs \in IntervalChoices}
    /\ status = InitStatus
    /\ intervalId = {}
    /\ timers = {}
    /\ callback = {}
    /\ startResult = "none"
    /\ now \in [ms : {0}, day : Weekdays, hh : {t[1] : t \in TimesOfDay},
                mm : {0}]
    /\ <<now.hh, now.mm>> \in TimesOfDay
    /\ ticks = [t \in TickIds |-> IdleTick]

\* No isTimeBetween call made yet.
NoWindowCall ==
    [currentTime |-> <<0, 0>>, startTime |-> <<0, 0>>, endTime |-> <<0, 0>>,
     result |-> {}]

\* No getTimeUntilNextSession call made yet.
NoSessionCall ==
    [called |-> FALSE, date |-> [ms |-> 0, day |-> 0, hh |-> 0, mm |-> 0],
     zoneShift |-> 0, result |-> {}]

\* No isTimeInTradingHours call made yet.
NoHoursCall ==
    [called |-> FALSE, time |-> [ms |-> 0, day |-> 0, hh |-> 0, mm |-> 0],
     config |-> {}, result |-> {}]

InitWindow ==
    /\ windowCall = NoWindowCall
    /\ sessionCall = NoSessionCall
    /\ hoursCall = NoHoursCall

----------------------------------------------------------------------------
(* The strategy registry and the aggregation of signals (strategyService). *)
(* A confidence is a whole number of hundredths (0.6 is 60); the average a *)
(* consensus carries is the pair <<sum, count>> of the division the code   *)
(* makes.                                                                  *)

\* The registry in insertion order (initializeDefaultStrategies), which is
\* the order of Object.entries.
StrategyNames ==
    <<"SMA Strategy", "RSI Strategy", "Random Strategy",
      "Options Momentum Strategy", "Options Volatility Strategy">>

RuleNames == SubSeq(StrategyNames, 1, MaxRules)
Rules == { RuleNames[k] : k \in 1..Len(RuleNames) }

DefaultMinConfidence == 60

\* defaultConfig with the minConfidence each rule is registered with.
InitStrategyConfig(name) ==
    [enabled |-> TRUE,
     minConfidence |-> CASE name = "Random Strategy" -> 20
                         [] name = "Options Momentum Strategy" -> 40
                         [] name = "Options Volatility Strategy" -> 50
                         [] OTHER -> DefaultMinConfidence]

Actions == {"buy", "sell", "hold"}
ConfidenceLevels == {20, 60, 90}

\* What a rule's function returns: a StrategyDecision (its metadata may
\* carry a strategyName of its own).
RuleDecisions ==
    [action : Actions, confidence : ConfidenceLevels \cup {0},
     quantity : {{}}, strategyName : {{}, {"custom"}}]
\* How the call of a rule's function ends: {} when it throws (or rejects),
\* else the decision it returns.
RuleOutcomes ==
    {{}} \cup
    { {d} : d \in { d \in RuleDecisions :
                      (d.confidence = 0 => d.action = "hold") /\
                      (d.strategyName # {} => d.confidence = 90) } }

\* getAllStrategies().filter(strategy => strategy.config.enabled): the
\* entries with the config objects they hold at this moment.
getEnabledStrategies(registry) ==
    LET all == [k \in 1..Len(RuleNames) |->
                   [name |-> RuleNames[k], config |-> registry[RuleNames[k]]]]
    IN  SelectSeq(all, LAMBDA strategy : strategy.config.enabled)

\* An analyzeSymbol that tags every decision but never tests its confidence.
IncludeAnyConfidence(decisions, strategy, outcome) ==
    IF outcome = {}
    THEN decisions
    ELSE LET decision == CHOOSE d \in outcome : TRUE
         IN  Append(decisions,
                    [decision EXCEPT !.strategyName = {strategy.name}])

\* The body of analyzeSymbol's loop once strategy.function has settled: the
\* decision is pushed, tagged with the rule's name, when its confidence
\* reaches strategy.config.minConfidence; a throw is logged.
Include(decisions, strategy, outcome) ==
    IF outcome = {}
    THEN decisions
    ELSE LET decision == CHOOSE d \in outcome : TRUE
         IN  IF decision.confidence >= strategy.config.minConfidence
             THEN Append(decisions,
                         [decision EXCEPT !.strategyName = {strategy.name}])
             ELSE decisions

\* An analyzeSymbol invocation: the strategies it listed, how the calls made
\* so far ended, and the decisions pushed; registryAtCall is the registry it
\* was called with.
NoAnalysis ==
    [pc |-> "idle", registryAtCall |-> <<>>, enabledStrategies |-> <<>>,
     outcomes |-> <<>>, decisions |-> <<>>]

\* getBestDecision's reduce, from the left, the first element being the
\* initial value.
RECURSIVE ReduceBest(_, _, _)
ReduceBest(decisions, k, best) ==
    IF k > Len(decisions)
    THEN best
    ELSE ReduceBest(decisions, k + 1,
                    IF decisions[k].confidence > best.confidence
                    THEN decisions[k] ELSE best)

\* A getBestDecision that lets a later signal of equal confidence win.
getBestDecisionLastWins(decisions) ==
    IF Len(decisions) = 0
    THEN {}
    ELSE {decisions[CHOOSE k \in 1..Len(decisions) :
                       /\ \A j \in 1..Len(decisions) :
                             decisions[j].confidence <= decisions[k].confidence
                       /\ \A j \in (k + 1)..Len(decisions) :
                             decisions[j].confidence < decisions[k].confidence]}

getBestDecision(decisions) ==
    IF Len(decisions) = 0
    THEN {}
    ELSE {ReduceBest(decisions, 2, decisions[1])}

RECURSIVE SumConfidence(_)
SumConfidence(decisions) ==
    IF decisions = <<>>
    THEN 0
    ELSE Head(decisions).confidence + SumConfidence(Tail(decisions))

Max(a, b) == IF a >= b THEN a ELSE b

\* The signal getConsensusDecision builds for the winning action.
Consensus(action, chosen, decisions, quantity) ==
    [action |-> action,
     confidence |-> <<SumConfidence(chosen), Max(Len(chosen), 1)>>,
     reason |-> "Consensus " \o action \o " (" \o ToString(Len(chosen)) \o "/"
                \o ToString(Len(decisions)) \o " strategies)",
     quantity |-> quantity,
     metadata |-> [consensus |-> TRUE, totalStrategies |-> Len(decisions)]]

\* A getConsensusDecision that tests sell before buy.
getConsensusDecisionSellFirst(decisions) ==
    LET buyDecisions == SelectSeq(decisions, LAMBDA d : d.action = "buy")
        sellDecisions == SelectSeq(decisions, LAMBDA d : d.action = "sell")
        holdDecisions == SelectSeq(decisions, LAMBDA d : d.action = "hold")
        maxCount == Max(Len(buyDecisions),
                        Max(Len(sellDecisions), Len(holdDecisions)))
    IN  IF Len(decisions) = 0
        THEN {}
        ELSE IF maxCount = Len(sellDecisions) /\ Len(sellDecisions) > 0
        THEN {Consensus("sell", sellDecisions, decisions, {})}
        ELSE IF maxCount = Len(buyDecisions) /\ Len(buyDecisions) > 0
        THEN {Consensus("buy", buyDecisions, decisions,
                        buyDecisions[1].quantity)}
        ELSE {Consensus("hold", holdDecisions, decisions, {})}

\* A getConsensusDecision whose sell copies the first sell signal's quantity.
getConsensusDecisionSellQuantity(decisions) ==
    LET buyDecisions == SelectSeq(decisions, LAMBDA d : d.action = "buy")
        sellDecisions == SelectSeq(decisions, LAMBDA d : d.action = "sell")
        holdDecisions == SelectSeq(decisions, LAMBDA d : d.action = "hold")
        maxCount == Max(Len(buyDecisions),
                        Max(Len(sellDecisions), Len(holdDecisions)))
    IN  IF Len(decisions) = 0
        THEN {}
        ELSE IF maxCount = Len(buyDecisions) /\ Len(buyDecisions) > 0
        THEN {Consensus("buy", buyDecisions, decisions,
                        buyDecisions[1].quantity)}
        ELSE IF maxCount = Len(sellDecisions) /\ Len(sellDecisions) > 0
        THEN {Consensus("sell", sellDecisions, decisions,
                        sellDecisions[1].quantity)}
        ELSE {Consensus("hold", holdDecisions, decisions, {})}

getConsensusDecision(decisions) ==
    LET buyDecisions == SelectSeq(decisions, LAMBDA d : d.action = "buy")
        sellDecisions == SelectSeq(decisions, LAMBDA d : d.action = "sell")
        holdDecisions == SelectSeq(decisions, LAMBDA d : d.action = "hold")
        maxCount == Max(Len(buyDecisions),
                        Max(Len(sellDecisions), Len(holdDecisions)))
    IN  IF Len(decisions) = 0
        THEN {}
        ELSE IF maxCount = Len(buyDecisions) /\ Len(buyDecisions) > 0
        THEN {Consensus("buy", buyDecisions, decisions,
                        buyDecisions[1].quantity)}
        ELSE IF maxCount = Len(sellDecisions) /\ Len(sellDecisions) > 0
        THEN {Consensus("sell", sellDecisions, decisions, {})}
        ELSE {Consensus("hold", holdDecisions, decisions, {})}

NoSelection == [function |-> "none", decisions |-> <<>>, result |-> {}]

InitStrategy ==
    /\ strategies = [name \in Rules |-> InitStrategyConfig(name)]
    /\ analysis = NoAnalysis
    /\ selection = NoSelection

\* tradingBot.ts as loaded: not initialized, no start() call made.
InitBot ==
    /\ isInitialized = FALSE
    /\ botStarts = [b \in BotStartIds |-> "idle"]

----------------------------------------------------------------------------
(* The trading cycle (tradingBot.runTradingCycle, processSymbol) and the   *)
(* metrics.                                                                *)

\* `metrics` as initializeBot() and resetMetrics() set it.
ZeroMetrics ==
    [totalTrades |-> 0, successfulTrades |-> 0, failedTrades |-> 0,
     totalProfit |-> 0, symbolsTraded |-> {}, strategiesUsed |-> {}]

\* A runTradingCycle invocation.  pc is the await it is suspended on; origin
\* tells who called it (the scheduler's tick `tick`, or a manual call);
\* symbols is the array the loop iterates and k the index of the symbol
\* being processed; positionMap is the positions snapshot; decision the
\* final decision and trade the executeTrade call of the symbol being
\* processed; failed the brokerage calls of the cycle that threw; log has one
\* entry for each processSymbol call.
IdleCycle ==
    [pc |-> "idle", origin |-> "none", tick |-> 0, symbols |-> <<>>, k |-> 0,
     positionMap |-> [s \in Watched |-> 0], decision |-> {},
     trade |-> IdleRun, failed |-> {}, log |-> <<>>]

\* The log entry of a processSymbol call: the config flags it read (none
\* before it reads them), how it ended, its executeTrade call, and whether
\* the scheduler was running when the order was submitted.
NewEntry(symbol) ==
    [symbol |-> symbol, useOptions |-> {}, useConsensus |-> {},
     end |-> "running", trade |-> IdleRun, order |-> {}]

InitCycle ==
    /\ metrics = ZeroMetrics
    /\ lastTradeTime = {}
    /\ cycles = [c \in CycleIds |-> IdleCycle]

Init ==
    InitTrade /\ InitSched /\ InitBot /\ InitWindow /\ InitStrategy /\ InitCycle

\* The pipeline alone: the scheduler stays as loaded, the clock at a
\* Monday 10:00.
InitTradeOnly ==
    /\ Init
    /\ \A s \in Watched \ Symbols : brokerPos[s] = 0
    /\ schedConfig = InitSchedConfig
    /\ now = [ms |-> 0, day |-> 1, hh |-> 10, mm |-> 0]

SpecTrade == InitTradeOnly /\ [][NextTrade]_vars

----------------------------------------------------------------------------
(* Operations of the scheduler *)

Finished(tick) == tick.pc \in {"idle", "done"}

\* A new tick takes the first free slot.
FreeTick(t) ==
    /\ Finished(ticks[t])
    /\ \A u \in TickIds : u < t => ~Finished(ticks[u])

\* executeCallback calls scheduler.isMarketOpen(), which calls the brokerage.
RefreshCall(tick) == [tick EXCEPT !.pc = "awaitRefreshClock"]

\* An executeCallback that invokes the callback whatever shouldRun returned.
AfterShouldRunAlwaysCalls(tick, cb, shouldRunResult) ==
    [tick EXCEPT !.result = {shouldRunResult}, !.pc = "awaitCallback",
                 !.trace = @ \o <<"shouldRun", "callback">>]

\* executeCallback from `const shouldRunResult = ...` on: the callback is
\* invoked when shouldRun returned true, and awaited.
AfterShouldRun(tick, cb, shouldRunResult) ==
    LET t1 == [tick EXCEPT !.result = {shouldRunResult},
                           !.trace = Append(@, "shouldRun")]
    IN  IF shouldRunResult
        THEN IF cb # {}
             THEN [t1 EXCEPT !.pc = "awaitCallback",
                             !.trace = Append(@, "callback")]
             ELSE RefreshCall(t1)
        ELSE RefreshCall(t1)

\* executeCallback up to its first brokerage call: the stamps, and shouldRun
\* up to `await alpacaService.isMarketOpen()`.
BeginTick(st, cfg, cb, date) ==
    LET t0 == [IdleTick EXCEPT !.trace = <<"stamp">>, !.day = date.day,
                               !.time = formatTime(date),
                               !.days = cfg.tradingDays,
                               !.at = date.ms, !.errorsBefore = st.errors]
    IN  IF ~IsTradingDay(cfg, date.day)
        THEN AfterShouldRun(t0, cb, FALSE)
        ELSE [t0 EXCEPT !.pc = "awaitShouldRunClock", !.clockCalls = @ + 1]

\* Stamps that start the run counter again with each scheduler start.
StampCountsFromStart(st, cfg, date) ==
    [st EXCEPT !.lastRun = {date.ms},
               !.totalRuns = IF st.startTime = {date.ms} /\ st.lastRun # {date.ms}
                             THEN 1 ELSE @ + 1,
               !.nextRun = {date.ms + cfg.intervalMs}]

\* `status.lastRun = new Date(); status.totalRuns++; status.nextRun = ...`
Stamp(st, cfg, date) ==
    [st EXCEPT !.lastRun = {date.ms}, !.totalRuns = @ + 1,
               !.nextRun = {date.ms + cfg.intervalMs}]

\* The smallest timer handle not in use.
NewTimer == CHOOSE n \in 1..(Cardinality(timers) + 1) :
                \A timer \in timers : timer.id # n

\* scheduler.setCallback(cb)
SetCallback ==
    /\ callback' = {"cb"}
    /\ UNCHANGED <<schedConfig, status, intervalId, timers, startResult, now,
                   ticks>>
    /\ UNCHANGED nonSchedVars

\* A start() that arms a timer even when the scheduler is running.
StartWhileRunningArms ==
    /\ status.isRunning
    /\ startResult' = "already running"
    /\ intervalId' = {NewTimer}
    /\ timers' = timers \cup {[id |-> NewTimer,
                               intervalMs |-> schedConfig.intervalMs,
                               armedAt |-> now.ms]}
    /\ UNCHANGED <<schedConfig, status, callback, now, ticks>>
    /\ UNCHANGED nonSchedVars

\* scheduler.start() while Running: a warning, nothing else.
StartWhileRunning ==
    /\ status.isRunning
    /\ startResult' = "already running"
    /\ UNCHANGED <<schedConfig, status, intervalId, timers, callback, now,
                   ticks>>
    /\ UNCHANGED nonSchedVars

\* A start() that sets the running flag before it looks for the callback.
StartWithoutCallbackFlagsFirst ==
    /\ ~status.isRunning
    /\ callback = {}
    /\ startResult' = "no callback"
    /\ status' = [status EXCEPT !.isRunning = TRUE, !.startTime = {now.ms}]
    /\ UNCHANGED <<schedConfig, intervalId, timers, callback, now, ticks>>
    /\ UNCHANGED nonSchedVars

\* scheduler.start() without a callback: it throws.
StartWithoutCallback ==
    /\ ~status.isRunning
    /\ callback = {}
    /\ startResult' = "no callback"
    /\ UNCHANGED <<schedConfig, status, intervalId, timers, callback, now,
                   ticks>>
    /\ UNCHANGED nonSchedVars

\* A start() that arms the timer and leaves the first tick to it.
StartSchedulerNoImmediateTick(t) ==
    /\ ~status.isRunning
    /\ callback # {}
    /\ status' = [status EXCEPT !.isRunning = TRUE, !.startTime = {now.ms},
                                !.lastError = {}]
    /\ intervalId' = {NewTimer}
    /\ timers' = timers \cup {[id |-> NewTimer,
                               intervalMs |-> schedConfig.intervalMs,
                               armedAt |-> now.ms]}
    /\ startResult' = "started"
    /\ UNCHANGED <<schedConfig, callback, now, ticks>>

\* scheduler.start() from Stopped: the flags, setInterval, and the immediate
\* executeCallback up to its first await.
StartScheduler(t) ==
    /\ ~status.isRunning
    /\ callback # {}
    /\ FreeTick(t)
    /\ status.totalRuns < MaxTotalRuns
    /\ status' = Stamp([status EXCEPT !.isRunning = TRUE,
                                      !.startTime = {now.ms},
                                      !.lastError = {}],
                       schedConfig, now)
    /\ intervalId' = {NewTimer}
    /\ timers' = timers \cup {[id |-> NewTimer,
                               intervalMs |-> schedConfig.intervalMs,
                               armedAt |-> now.ms]}
    /\ ticks' = [ticks EXCEPT ![t] = BeginTick(status, schedConfig, callback, now)]
    /\ startResult' = "started"
    /\ UNCHANGED <<schedConfig, callback, now>>

\* scheduler.start() called on its own.
Start(t) ==
    /\ StartScheduler(t)
    /\ UNCHANGED nonSchedVars

\* A stop() that leaves the interval timer armed.
stopKeepsTimer(st, id, armed) ==
    IF ~st.isRunning
    THEN [status |-> st, intervalId |-> id, timers |-> armed]
    ELSE [status |-> [st EXCEPT !.isRunning = FALSE, !.nextRun = {}],
          intervalId |-> {}, timers |-> armed]

\* stop(): a warning when not running; else clearInterval(intervalId),
\* intervalId = null, isRunning = false, nextRun = undefined.
stop(st, id, armed) ==
    IF ~st.isRunning
    THEN [status |-> st, intervalId |-> id, timers |-> armed]
    ELSE [status |-> [st EXCEPT !.isRunning = FALSE, !.nextRun = {}],
          intervalId |-> {},
          timers |-> { timer \in armed : timer.id \notin id }]

\* scheduler.stop()
Stop ==
    /\ status' = stop(status, intervalId, timers).status
    /\ intervalId' = stop(status, intervalId, timers).intervalId
    /\ timers' = stop(status, intervalId, timers).timers
    /\ UNCHANGED <<schedConfig, callback, startResult, now, ticks>>
    /\ UNCHANGED nonSchedVars

\* An armed interval timer fires: executeCallback up to its first await.
TimerFires(t) ==
    /\ timers # {}
    /\ FreeTick(t)
    /\ status.totalRuns < MaxTotalRuns
    /\ status' = Stamp(status, schedConfig, now)
    /\ ticks' = [ticks EXCEPT ![t] = BeginTick(status, schedConfig, callback, now)]
    /\ UNCHANGED <<schedConfig, intervalId, timers, callback, startResult, now>>
    /\ UNCHANGED nonSchedVars

\* GET /v2/clock answers the call shouldRun made.
ShouldRunClockAnswers(t, response) ==
    /\ ticks[t].pc = "awaitShouldRunClock"
    /\ LET answer == alpacaIsMarketOpen(response)
           tick == [ticks[t] EXCEPT
                       !.clockFailed = (response = "failed"),
                       !.inWindow = {isWithinTradingHours(schedConfig,
                                                          ticks[t].time)}]
       IN  ticks' = [ticks EXCEPT ![t] =
                        AfterShouldRun(tick, callback,
                            ShouldRunAfterClock(schedConfig, answer,
                                                tick.time))]
    /\ UNCHANGED <<schedConfig, status, intervalId, timers, callback,
                   startResult, now>>
    /\ UNCHANGED nonSchedVars

\* A catch block that stops the scheduler when the callback fails.
CallbackSettlesStopsOnError(t) ==
    /\ ticks[t].pc = "awaitCallback"
    /\ \/ /\ ticks' = [ticks EXCEPT ![t] = RefreshCall(ticks[t])]
          /\ UNCHANGED <<status, intervalId, timers>>
       \/ /\ ticks' = [ticks EXCEPT ![t] = [ticks[t] EXCEPT !.pc = "done",
                                                            !.threw = TRUE]]
          /\ status' = [stop(status, intervalId, timers).status EXCEPT
                           !.errors = @ + 1,
                           !.lastError = {"callback failed"}]
          /\ intervalId' = {}
          /\ timers' = {}
    /\ UNCHANGED <<schedConfig, callback, startResult, now>>
    /\ UNCHANGED nonSchedVars

\* The callback's promise settles: it resolves and executeCallback goes on to
\* the market-status refresh, or it rejects and the catch block counts the
\* error.
CallbackSettles(t) ==
    /\ ticks[t].pc = "awaitCallback"
    /\ \/ /\ ticks' = [ticks EXCEPT ![t] = RefreshCall(ticks[t])]
          /\ UNCHANGED status
       \/ /\ ticks' = [ticks EXCEPT ![t] = [ticks[t] EXCEPT !.pc = "done",
                                                            !.threw = TRUE]]
          /\ status' = [status EXCEPT !.errors = @ + 1,
                                      !.lastError = {"callback failed"}]
    /\ UNCHANGED <<schedConfig, intervalId, timers, callback, startResult, now>>
    /\ UNCHANGED nonSchedVars

\* GET /v2/clock answers the refresh: `status.isMarketOpen = await
\* isMarketOpen()`.
RefreshClockAnswers(t, response) ==
    /\ ticks[t].pc = "awaitRefreshClock"
    /\ status' = [status EXCEPT !.isMarketOpen =
                     IsMarketOpenAfterClock(schedConfig,
                                            alpacaIsMarketOpen(response), now)]
    /\ ticks' = [ticks EXCEPT ![t] = [ticks[t] EXCEPT
                                         !.pc = "done",
                                         !.trace = Append(@, "refresh")]]
    /\ UNCHANGED <<schedConfig, intervalId, timers, callback, startResult, now>>
    /\ UNCHANGED nonSchedVars

\* scheduler.updateConfig(newConfig): `config = {...config, ...newConfig}`
SchedConfigUpdates ==
    [tradingDays : {{1, 2, 3, 4, 5}, {0, 6}},
     tradingStartTime : {<<9, 30>>}, tradingEndTime : {<<16, 0>>}]

UpdateSchedConfig(newConfig) ==
    /\ schedConfig' = [field \in DOMAIN schedConfig |->
                          IF field \in DOMAIN newConfig
                          THEN newConfig[field] ELSE schedConfig[field]]
    /\ schedConfig' # schedConfig
    /\ UNCHANGED <<status, intervalId, timers, callback, startResult, now,
                   ticks>>
    /\ UNCHANGED nonSchedVars

\* Time passes: later the same day, or into the next day.
ClockAdvances(time, elapsed) ==
    /\ now.ms + elapsed <= MaxClock * DefaultIntervalMs
    /\ now' = [ms |-> now.ms + elapsed,
               day |-> IF timeToMinutes(time) > timeToMinutes(formatTime(now))
                       THEN now.day ELSE (now.day + 1) % 7,
               hh |-> time[1], mm |-> time[2]]
    /\ UNCHANGED <<schedConfig, status, intervalId, timers, callback,
                   startResult, ticks>>
    /\ UNCHANGED nonSchedVars

\* tradingBot.start() after `if (!isInitialized) await initialize()`: a
\* warning when the scheduler is running, else `await scheduler.start()`.
BotStartProceeds(b, t) ==
    \/ /\ status.isRunning
       /\ botStarts' = [botStarts EXCEPT ![b] = "already running"]
       /\ UNCHANGED schedVars
    \/ /\ ~status.isRunning
       /\ callback = {}
       /\ botStarts' = [botStarts EXCEPT ![b] = "failed"]
       /\ startResult' = "no callback"
       /\ UNCHANGED <<schedConfig, status, intervalId, timers, callback, now,
                      ticks>>
    \/ /\ StartScheduler(t)
       /\ botStarts' = [botStarts EXCEPT ![b] = "started"]

\* tradingBot.start() is called: initialize() first when the bot is not
\* initialized (it awaits alpacaService.getAccount()).
BotStartCalled(b, t) ==
    /\ botStarts[b] \notin {"awaitAccount", "initialized"}
    /\ \A c \in BotStartIds :
          c < b => botStarts[c] \in {"awaitAccount", "initialized"}
    /\ IF ~isInitialized
       THEN /\ botStarts' = [botStarts EXCEPT ![b] = "awaitAccount"]
            /\ UNCHANGED schedVars
       ELSE BotStartProceeds(b, t)
    /\ UNCHANGED <<isInitialized, tradeVars, windowVars, strategyVars>>

\* getAccount answers initialize(): the callback is registered and the bot
\* is initialized, or initialize() rethrows the failure.
AccountAnswers(b, ok) ==
    /\ botStarts[b] = "awaitAccount"
    /\ IF ok
       THEN /\ callback' = {"cb"}
            /\ isInitialized' = TRUE
            /\ botStarts' = [botStarts EXCEPT ![b] = "initialized"]
       ELSE /\ botStarts' = [botStarts EXCEPT ![b] = "failed"]
            /\ UNCHANGED <<callback, isInitialized>>
    /\ UNCHANGED <<schedConfig, status, intervalId, timers, startResult, now,
                   ticks, tradeVars, windowVars, strategyVars>>

\* start() resumes after `await initialize()`.
BotStartResumes(b, t) ==
    /\ botStarts[b] = "initialized"
    /\ BotStartProceeds(b, t)
    /\ UNCHANGED <<isInitialized, tradeVars, windowVars, strategyVars>>

NextSched ==
    \/ SetCallback
    \/ StartWhileRunning
    \/ StartWithoutCallback
    \/ \E t \in TickIds : Start(t)
    \/ Stop
    \/ \E t \in TickIds : TimerFires(t)
    \/ \E t \in TickIds, response \in ClockResponses :
          ShouldRunClockAnswers(t, response)
    \/ \E t \in TickIds : CallbackSettles(t)
    \/ \E t \in TickIds, response \in ClockResponses :
          RefreshClockAnswers(t, response)
    \/ \E c \in SchedConfigUpdates : UpdateSchedConfig(c)
    \/ \E time \in TimesOfDay, elapsed \in {DefaultIntervalMs} :
          ClockAdvances(time, elapsed)

\* The scheduler alone: no pipeline invocation, no position held; the
\* process is loaded with the default interval at 10:00 of a Monday, a
\* Friday or a Saturday.
InitSchedOnly ==
    /\ Init
    /\ brokerPos = [s \in Symbols \cup Watched |-> 0]
    /\ schedConfig = InitSchedConfig
    /\ formatTime(now) = <<10, 0>>
    /\ now.day \in {1, 5, 6}

SpecSched == InitSchedOnly /\ [][NextSched]_vars

\* The bot's start() and stop() around the scheduler: concurrent start()
\* calls, stop(), direct scheduler.start() calls and the ticks, on a Monday
\* at 10:00 with the schedule as loaded (either interval).
NextBot ==
    \/ \E b \in BotStartIds, t \in TickIds : BotStartCalled(b, t)
    \/ \E b \in BotStartIds, ok \in BOOLEAN : AccountAnswers(b, ok)
    \/ \E b \in BotStartIds, t \in TickIds : BotStartResumes(b, t)
    \/ StartWhileRunning
    \/ StartWithoutCallback
    \/ \E t \in TickIds : Start(t)
    \/ Stop
    \/ \E t \in TickIds : TimerFires(t)
    \/ \E t \in TickIds, response \in ClockResponses :
          ShouldRunClockAnswers(t, response)
    \/ \E t \in TickIds : CallbackSettles(t)
    \/ \E t \in TickIds, response \in ClockResponses :
          RefreshClockAnswers(t, response)

InitBotOnly ==
    /\ Init
    /\ brokerPos = [s \in Symbols \cup Watched |-> 0]
    /\ now = [ms |-> 0, day |-> 1, hh |-> 10, mm |-> 0]

SpecBot == InitBotOnly /\ [][NextBot]_vars

----------------------------------------------------------------------------
(* The time-window arithmetic alone: isTimeBetween applied to times of day *)
(* around midnight, the session boundaries and the ends of the day.        *)

WindowTimes ==
    {<<0, 0>>, <<2, 0>>, <<4, 0>>, <<4, 1>>, <<10, 0>>, <<19, 59>>,
     <<20, 0>>, <<23, 0>>, <<23, 59>>}

\* isTimeBetween(currentTime, startTime, endTime) is called.
IsTimeBetweenCalled(currentTime, startTime, endTime) ==
    /\ windowCall' = [currentTime |-> currentTime, startTime |-> startTime,
                      endTime |-> endTime,
                      result |-> {isTimeBetween(currentTime, startTime,
                                                endTime)}]
    /\ UNCHANGED <<sessionCall, hoursCall, tradeVars, schedVars, botVars,
                   strategyVars>>

NextWindow ==
    \E currentTime \in WindowTimes, startTime \in WindowTimes,
       endTime \in WindowTimes :
        IsTimeBetweenCalled(currentTime, startTime, endTime)

InitWindowOnly ==
    /\ Init
    /\ schedConfig = InitSchedConfig
    /\ brokerPos = [s \in Symbols \cup Watched |-> 0]
    /\ now = [ms |-> 0, day |-> 1, hh |-> 10, mm |-> 0]

SpecWindow == InitWindowOnly /\ [][NextWindow]_vars

----------------------------------------------------------------------------
(* Operations of the strategy registry *)

\* analyzeSymbol(symbol, marketData) is called: the enabled strategies are
\* listed and the first one's function is called and awaited.
AnalyzeSymbolCalled ==
    /\ analysis.pc # "evaluating"
    /\ LET enabledStrategies == getEnabledStrategies(strategies)
       IN  analysis' = [pc |-> IF enabledStrategies = <<>>
                               THEN "returned" ELSE "evaluating",
                        registryAtCall |-> strategies,
                        enabledStrategies |-> enabledStrategies,
                        outcomes |-> <<>>, decisions |-> <<>>]
    /\ UNCHANGED <<strategies, selection, tradeVars, schedVars, botVars,
                   windowVars>>

\* The awaited strategy function settles with a decision or throws; the loop
\* goes on to the next strategy, or analyzeSymbol returns its decisions.
StrategySettles(outcome) ==
    /\ analysis.pc = "evaluating"
    /\ LET k == Len(analysis.outcomes) + 1
           strategy == analysis.enabledStrategies[k]
       IN  analysis' = [analysis EXCEPT
                           !.outcomes = Append(@, outcome),
                           !.decisions = Include(@, strategy, outcome),
                           !.pc = IF k = Len(analysis.enabledStrategies)
                                  THEN "returned" ELSE "evaluating"]
    /\ UNCHANGED <<strategies, selection, tradeVars, schedVars, botVars,
                   windowVars>>

\* updateStrategyConfig's arguments: the rule is switched on or off, or its
\* minConfidence is set.
StrategyConfigUpdates ==
    [enabled : BOOLEAN] \cup [minConfidence : {20, DefaultMinConfidence}]

\* updateStrategyConfig(name, newConfig): the entry gets a new config
\* object, `{...config, ...newConfig}`.
UpdateStrategyConfig(name, newConfig) ==
    /\ strategies' = [strategies EXCEPT ![name] =
                         [field \in DOMAIN @ |->
                             IF field \in DOMAIN newConfig
                             THEN newConfig[field] ELSE @[field]]]
    /\ strategies' # strategies
    /\ UNCHANGED <<analysis, selection, tradeVars, schedVars, botVars,
                   windowVars>>

NextStrategy ==
    \/ AnalyzeSymbolCalled
    \/ \E outcome \in RuleOutcomes : StrategySettles(outcome)
    \/ \E name \in Rules, newConfig \in StrategyConfigUpdates :
          UpdateStrategyConfig(name, newConfig)

InitStrategyOnly ==
    /\ Init
    /\ brokerPos = [s \in Symbols \cup Watched |-> 0]
    /\ schedConfig = InitSchedConfig
    /\ now = [ms |-> 0, day |-> 1, hh |-> 10, mm |-> 0]

SpecStrategy == InitStrategyOnly /\ [][NextStrategy]_vars

\* The signals the aggregation functions are handed: decisions as
\* analyzeSymbol returns them, tagged with the name of a rule (the first or
\* the last of the rules).
Signals ==
    { d \in [action : Actions, confidence : ConfidenceLevels,
             quantity : {{}, {1}},
             strategyName : {{RuleNames[1]}, {RuleNames[Len(RuleNames)]}}] :
        d.quantity # {} => d.action = "buy" }

RECURSIVE SignalLists(_)
SignalLists(n) ==
    IF n = 0
    THEN {<<>>}
    ELSE LET shorter == SignalLists(n - 1)
         IN  shorter \cup { Append(list, d) : list \in shorter, d \in Signals }

\* getBestDecision(decisions) is called with some list of signals (one call
\* is followed).
GetBestDecisionCalled ==
    /\ selection = NoSelection
    /\ \E decisions \in SignalLists(MaxSignals) :
          selection' = [function |-> "getBestDecision",
                        decisions |-> decisions,
                        result |-> getBestDecision(decisions)]
    /\ UNCHANGED <<strategies, analysis, tradeVars, schedVars, botVars,
                   windowVars>>

\* getConsensusDecision(decisions) is called with some list of signals.
GetConsensusDecisionCalled ==
    /\ selection = NoSelection
    /\ \E decisions \in SignalLists(MaxSignals) :
          selection' = [function |-> "getConsensusDecision",
                        decisions |-> decisions,
                        result |-> getConsensusDecision(decisions)]
    /\ UNCHANGED <<strategies, analysis, tradeVars, schedVars, botVars,
                   windowVars>>

NextAggregate ==
    \/ GetBestDecisionCalled
    \/ GetConsensusDecisionCalled

SpecAggregate == InitStrategyOnly /\ [][NextAggregate]_vars

----------------------------------------------------------------------------
(* Operations of the trading cycle.  The steps of a cycle work on the      *)
(* bot's state as a record [cycle, metrics, lastTradeTime].                *)

\* `finalDecision.metadata?.strategyName`
StrategyNameOf(decision) ==
    IF "strategyName" \in DOMAIN decision THEN decision.strategyName ELSE {}

\* A metrics update that counts the successful trades only.
RecordTradeSuccessOnly(m, symbol, finalDecision, tradeResult) ==
    IF tradeResult.success
    THEN [m EXCEPT !.successfulTrades = @ + 1, !.totalTrades = @ + 1,
                   !.symbolsTraded = @ \cup {symbol},
                   !.strategiesUsed = @ \cup StrategyNameOf(finalDecision)]
    ELSE m

\* A metrics update that leaves failedTrades alone.
RecordTradeFailuresUncounted(m, symbol, finalDecision, tradeResult) ==
    LET counted ==
            IF tradeResult.success
            THEN [m EXCEPT !.successfulTrades = @ + 1,
                           !.symbolsTraded = @ \cup {symbol},
                           !.strategiesUsed = @ \cup StrategyNameOf(finalDecision)]
            ELSE m
    IN  [counted EXCEPT !.totalTrades = @ + 1]

\* processSymbol after `await executeTrade(...)`: the counters and the sets.
RecordTrade(m, symbol, finalDecision, tradeResult) ==
    LET counted ==
            IF tradeResult.success
            THEN [m EXCEPT !.successfulTrades = @ + 1,
                           !.symbolsTraded = @ \cup {symbol},
                           !.strategiesUsed = @ \cup StrategyNameOf(finalDecision)]
            ELSE [m EXCEPT !.failedTrades = @ + 1]
    IN  [counted EXCEPT !.totalTrades = @ + 1]

\* A resetMetrics that keeps the sets.
resetMetricsKeepsSets(m) ==
    [ZeroMetrics EXCEPT !.symbolsTraded = m.symbolsTraded,
                        !.strategiesUsed = m.strategiesUsed]

\* resetMetrics(): a new metrics object.
resetMetrics(m) == ZeroMetrics

\* getMetrics(): `{...metrics}`
getMetrics(m) == m

\* getStatus(): `{...scheduler.getStatus(), metrics: {...metrics}, config}`
getStatus(st, m, cfg) == [status |-> st, metrics |-> m, config |-> cfg]

\* getPerformanceSummary(): the success rate is a whole number of hundredths
\* of a percent, `Math.round(successRate * 100) / 100` of
\* successfulTrades / totalTrades * 100.
getPerformanceSummary(m, last) ==
    [successRate |-> IF m.totalTrades > 0
                     THEN (2 * 10000 * m.successfulTrades + m.totalTrades)
                              \div (2 * m.totalTrades)
                     ELSE 0,
     totalTrades |-> m.totalTrades,
     symbolsTraded |-> Cardinality(m.symbolsTraded),
     strategiesUsed |-> Cardinality(m.strategiesUsed),
     lastTradeTime |-> last]

\* runTradingCycle's loop: processSymbol is called for the next symbol and
\* runs up to `await alpacaService.getQuote(symbol)`; after the last symbol
\* runTradingCycle returns.
NextSymbol(s) ==
    LET cy == s.cycle IN
    IF cy.k < Len(cy.symbols)
    THEN [s EXCEPT !.cycle =
             [cy EXCEPT !.k = @ + 1, !.pc = "awaitQuote", !.decision = {},
                        !.trade = IdleRun,
                        !.log = Append(@, NewEntry(cy.symbols[cy.k + 1]))]]
    ELSE [s EXCEPT !.cycle.pc = "done"]

\* processSymbol returns: the loop goes on.
EndSymbol(s, end) ==
    NextSymbol([s EXCEPT !.cycle.log[Len(s.cycle.log)].end = end,
                         !.cycle.log[Len(s.cycle.log)].trade = s.cycle.trade])

\* A processSymbol that lets the error through, in a loop without a catch:
\* runTradingCycle rejects.
SymbolFailedAborts(s, call) ==
    [s EXCEPT !.cycle.pc = "thrown", !.cycle.failed = @ \cup {call},
              !.cycle.log[Len(s.cycle.log)].end = call \o " failed"]

\* The catch block of processSymbol: the error is logged and processSymbol
\* returns.
SymbolFailed(s, call) ==
    EndSymbol([s EXCEPT !.cycle.failed = @ \cup {call}], call \o " failed")

\* A runTradingCycle that takes each call in turn: it waits for the cycle
\* before it to end.
runTradingCycleGuarded(origin, tick, initialized, others) ==
    IF ~initialized \/ \E cy \in others : cy.pc \notin {"idle", "done"}
    THEN [IdleCycle EXCEPT !.pc = "done", !.origin = origin, !.tick = tick,
                           !.failed = {"not started"}]
    ELSE [IdleCycle EXCEPT !.pc = "awaitPositions", !.origin = origin,
                           !.tick = tick]

\* runTradingCycle up to `await alpacaService.getPositions()`; it returns at
\* once when the bot is not initialized.  others are the other invocations.
runTradingCycle(origin, tick, initialized, others) ==
    IF ~initialized
    THEN [IdleCycle EXCEPT !.pc = "done", !.origin = origin, !.tick = tick,
                           !.failed = {"not started"}]
    ELSE [IdleCycle EXCEPT !.pc = "awaitPositions", !.origin = origin,
                           !.tick = tick]

\* The symbols of the contracts the brokerage lists for the watched symbols.
ContractSymbols ==
    UNION { { option.symbol : option \in ContractPool(s) } : s \in Watched }

\* The contracts' symbols whose underlying is `underlying`.
ContractsOn(underlying) ==
    { option.symbol : option \in ContractPool(underlying) }

RECURSIVE HeldIn(_, _)
\* The quantities positions holds in symbols, added up.
HeldIn(positions, symbols) ==
    IF symbols = {}
    THEN 0
    ELSE LET sym == CHOOSE sym \in symbols : TRUE
         IN  positions[sym] + HeldIn(positions, symbols \ {sym})

\* A runTradingCycle whose position map files a contract's position under
\* its underlying symbol.
AfterPositionsByUnderlying(s, cfg, threw, positions) ==
    IF threw
    THEN [s EXCEPT !.cycle.pc = "done",
                   !.cycle.failed = @ \cup {"getPositions"}]
    ELSE NextSymbol([s EXCEPT
                        !.cycle.positionMap =
                            [sym \in DOMAIN positions |->
                                positions[sym]
                                + HeldIn(positions,
                                         ContractsOn(sym) \cap DOMAIN positions)],
                        !.cycle.symbols = cfg.symbols])

\* A runTradingCycle without its outer catch block: a failed getPositions
\* rejects the promise the scheduler awaits.
AfterPositionsRethrows(s, cfg, threw, positions) ==
    IF threw
    THEN [s EXCEPT !.cycle.pc = "thrown",
                   !.cycle.failed = @ \cup {"getPositions"}]
    ELSE NextSymbol([s EXCEPT
                        !.cycle.positionMap = positions,
                        !.cycle.symbols = cfg.symbols])

\* runTradingCycle from the answer of getPositions to the first processSymbol
\* call: the map holds each position under its own symbol; a failed
\* getPositions ends the cycle in the outer catch block.
AfterPositions(s, cfg, threw, positions) ==
    IF threw
    THEN [s EXCEPT !.cycle.pc = "done",
                   !.cycle.failed = @ \cup {"getPositions"}]
    ELSE NextSymbol([s EXCEPT
                        !.cycle.positionMap = positions,
                        !.cycle.symbols = cfg.symbols])

\* processSymbol from the answer of getQuote to the next await: the chain
\* for the market data when config.useOptions, else analyzeSymbol.
AfterQuote(s, cfg, threw) ==
    IF threw
    THEN SymbolFailed(s, "getQuote")
    ELSE [s EXCEPT !.cycle.log[Len(s.cycle.log)].useOptions = {cfg.useOptions},
                   !.cycle.pc = IF cfg.useOptions THEN "awaitOptionsChain"
                                ELSE "awaitAnalysis"]

\* processSymbol from the answer of getOptionsChain (a list, or a failure the
\* inner catch turns into []) to `await strategyService.analyzeSymbol(...)`
AfterOptionsChain(s) == [s EXCEPT !.cycle.pc = "awaitAnalysis"]

\* A processSymbol that gives the cycle up when it finds the scheduler
\* stopped after its trade.
AfterTradeUnlessStopped(s, date, running, run) ==
    LET symbol == s.cycle.symbols[s.cycle.k]
        s1 == [s EXCEPT !.cycle.trade = run]
    IN  IF run.pc = "returned" /\ running
        THEN EndSymbol([s1 EXCEPT
                           !.metrics = RecordTrade(@, symbol,
                                           CHOOSE d \in s.cycle.decision : TRUE,
                                           CHOOSE o \in run.outcome : TRUE),
                           !.lastTradeTime = {date.ms}],
                       "traded")
        ELSE IF run.pc = "returned"
        THEN [s1 EXCEPT !.cycle.pc = "done"]
        ELSE [s1 EXCEPT !.cycle.pc = "awaitTrade"]

\* processSymbol once executeTrade has made a step: when it returned, the
\* metrics are updated and processSymbol returns; running tells whether the
\* scheduler is running, noted when the step submitted the order together
\* with what the brokerage then held of the symbol.
AfterTrade(s, date, running, run) ==
    LET n == Len(s.cycle.log)
        symbol == s.cycle.symbols[s.cycle.k]
        s1 == [s EXCEPT !.cycle.trade = run,
                        !.cycle.log[n].order =
                            IF run.request # {} /\ s.cycle.trade.request = {}
                            THEN {[isRunning |-> running,
                                   held |-> brokerPos[symbol]]}
                            ELSE @]
    IN  IF run.pc = "returned"
        THEN LET tradeResult == CHOOSE o \in run.outcome : TRUE
                 finalDecision == CHOOSE d \in s.cycle.decision : TRUE
             IN  EndSymbol([s1 EXCEPT
                               !.metrics = RecordTrade(@, symbol, finalDecision,
                                                       tradeResult),
                               !.lastTradeTime = {date.ms}],
                           "traded")
        ELSE IF run.pc = "thrown"
        THEN SymbolFailed(s1, "executeTrade")
        ELSE [s1 EXCEPT !.cycle.pc = "awaitTrade"]

\* A processSymbol that reads the flags of the config the cycle started with.
AfterAnalysisSnapshot(s, cfg, date, running, decisions) ==
    LET n == Len(s.cycle.log)
        symbol == s.cycle.symbols[s.cycle.k]
        finalDecision == getBestDecision(decisions)
        s1 == [s EXCEPT !.cycle.decision = finalDecision,
                        !.cycle.log[n].useConsensus = {FALSE}]
    IN  IF Len(decisions) = 0
        THEN EndSymbol(s, "no decisions")
        ELSE LET d == CHOOSE d \in finalDecision : TRUE
                 r == [NewRun("cycle", symbol, d.action, d.quantity,
                              Msg("strategy"))
                          EXCEPT !.position =
                                     PositionOf(symbol, s.cycle.positionMap[symbol])]
             IN  IF d.action = "hold"
                 THEN EndSymbol(s1, "hold")
                 ELSE AfterTrade(s1, date, running,
                                 Observed(executeTrade(r, cfg), cfg))

\* A processSymbol that hands executeTrade the position the brokerage holds
\* at that moment.
AfterAnalysisRereads(s, cfg, date, running, decisions) ==
    LET n == Len(s.cycle.log)
        symbol == s.cycle.symbols[s.cycle.k]
        finalDecision == IF cfg.useConsensus
                         THEN getConsensusDecision(decisions)
                         ELSE getBestDecision(decisions)
        s1 == [s EXCEPT !.cycle.decision = finalDecision,
                        !.cycle.log[n].useConsensus = {cfg.useConsensus}]
    IN  IF Len(decisions) = 0
        THEN EndSymbol(s, "no decisions")
        ELSE IF finalDecision = {}
        THEN EndSymbol(s1, "no final decision")
        ELSE LET d == CHOOSE d \in finalDecision : TRUE
                 r == [NewRun("cycle", symbol, d.action, d.quantity,
                              Msg("strategy"))
                          EXCEPT !.position =
                                     PositionOf(symbol, brokerPos[symbol])]
             IN  IF d.action = "hold"
                 THEN EndSymbol(s1, "hold")
                 ELSE AfterTrade(s1, date, running,
                                 Observed(executeTrade(r, cfg), cfg))

\* processSymbol from the answer of analyzeSymbol on: no decisions, or the
\* final decision by config.useConsensus; unless it is a hold, executeTrade
\* is called with the snapshot's position and runs to its first await.
AfterAnalysis(s, cfg, date, running, decisions) ==
    LET n == Len(s.cycle.log)
        symbol == s.cycle.symbols[s.cycle.k]
        finalDecision == IF cfg.useConsensus
                         THEN getConsensusDecision(decisions)
                         ELSE getBestDecision(decisions)
        s1 == [s EXCEPT !.cycle.decision = finalDecision,
                        !.cycle.log[n].useConsensus = {cfg.useConsensus}]
    IN  IF Len(decisions) = 0
        THEN EndSymbol(s, "no decisions")
        ELSE IF finalDecision = {}
        THEN EndSymbol(s1, "no final decision")
        ELSE LET d == CHOOSE d \in finalDecision : TRUE
                 r == [NewRun("cycle", symbol, d.action, d.quantity,
                              Msg("strategy"))
                          EXCEPT !.position =
                                     PositionOf(symbol, s.cycle.positionMap[symbol])]
             IN  IF d.action = "hold"
                 THEN EndSymbol(s1, "hold")
                 ELSE AfterTrade(s1, date, running,
                                 Observed(executeTrade(r, cfg), cfg))

\* A new cycle takes the first slot never used.
FreeCycle(c) ==
    /\ cycles[c].pc = "idle"
    /\ \A b \in CycleIds : b < c => cycles[b].pc # "idle"

InFlight(cy) == cy.pc \notin {"idle", "done", "thrown"}

BotState(c) ==
    [cycle |-> cycles[c], metrics |-> metrics, lastTradeTime |-> lastTradeTime]

\* What the steps of a cycle leave alone.
nonCycleVars ==
    <<config, brokerPos, runs, schedConfig, intervalId, timers, callback,
      startResult, now, botVars, windowVars, strategyVars>>

\* executeCallback when the awaited callback settles: on to the market-status
\* refresh, or into its catch block.
AfterCallback(tick, threw) ==
    IF threw THEN [tick EXCEPT !.pc = "done", !.threw = TRUE]
    ELSE RefreshCall(tick)

\* A step of cycle c that leaves the bot in state s.  When the cycle ends,
\* the tick that awaits it resumes in the same step.
CycleStep(c, s) ==
    LET ended == s.cycle.pc \in {"done", "thrown"} /\ s.cycle.tick \in TickIds
        threw == s.cycle.pc = "thrown"
    IN  /\ cycles' = [cycles EXCEPT ![c] = s.cycle]
        /\ metrics' = s.metrics
        /\ lastTradeTime' = s.lastTradeTime
        /\ ticks' = IF ended
                    THEN [ticks EXCEPT ![s.cycle.tick] = AfterCallback(@, threw)]
                    ELSE ticks
        /\ status' = IF ended /\ threw
                     THEN [status EXCEPT !.errors = @ + 1,
                                         !.lastError = {"callback failed"}]
                     ELSE status
        /\ UNCHANGED nonCycleVars

\* runTradingCycle() is called from outside the scheduler (POST /bot/cycle).
RunTradingCycle(c) ==
    /\ FreeCycle(c)
    /\ CycleStep(c, [BotState(c) EXCEPT
                        !.cycle = runTradingCycle("manual", 0, isInitialized,
                                      { cycles[b] : b \in CycleIds \ {c} })])

\* The brokerage answers the shouldRun of a tick whose callback is the bot's
\* `() => runTradingCycle()`: when shouldRun returns true the callback is
\* invoked, and runTradingCycle runs to its first await.
TickReachesCallback(t, response, c) ==
    /\ ticks[t].pc = "awaitShouldRunClock"
    /\ FreeCycle(c)
    /\ LET answer == alpacaIsMarketOpen(response)
           tick == [ticks[t] EXCEPT
                       !.clockFailed = (response = "failed"),
                       !.inWindow = {isWithinTradingHours(schedConfig,
                                                          ticks[t].time)}]
           after == AfterShouldRun(tick, callback,
                        ShouldRunAfterClock(schedConfig, answer, tick.time))
           cy == runTradingCycle("tick", t, isInitialized,
                                 { cycles[b] : b \in CycleIds \ {c} })
       IN  IF after.pc = "awaitCallback"
           THEN /\ cycles' = [cycles EXCEPT ![c] = cy]
                /\ ticks' = [ticks EXCEPT ![t] =
                                IF cy.pc = "done" THEN AfterCallback(after, FALSE)
                                ELSE after]
           ELSE /\ ticks' = [ticks EXCEPT ![t] = after]
                /\ UNCHANGED cycles
    /\ UNCHANGED <<metrics, lastTradeTime, status>>
    /\ UNCHANGED nonCycleVars

\* alpacaService.getPositions answers: the positions, or it throws.
PositionsAnswer(c, threw) ==
    /\ cycles[c].pc = "awaitPositions"
    /\ CycleStep(c, AfterPositions(BotState(c), config, threw, brokerPos))

\* alpacaService.getQuote answers: the quote, or it throws.
QuoteAnswers(c, threw) ==
    /\ cycles[c].pc = "awaitQuote"
    /\ CycleStep(c, AfterQuote(BotState(c), config, threw))

\* alpacaService.getOptionsChain answers processSymbol: a chain or a failure,
\* both of which only shape the market data.
MarketChainAnswers(c) ==
    /\ cycles[c].pc = "awaitOptionsChain"
    /\ CycleStep(c, AfterOptionsChain(BotState(c)))

\* The signal lists analyzeSymbol returns to the model's cycles: nothing, a
\* hold, a buy of one share, a sell (the rules give a sell no quantity), and
\* a confident buy outnumbered by two sells.
CycleSignal(action, confidence, quantity) ==
    [action |-> action, confidence |-> confidence, quantity |-> quantity,
     strategyName |-> {RuleNames[1]}]

CycleSignalLists ==
    { <<>>,
      <<CycleSignal("hold", 60, {})>>,
      <<CycleSignal("buy", 90, {1})>>,
      <<CycleSignal("sell", 90, {})>>,
      <<CycleSignal("buy", 90, {1}), CycleSignal("sell", 60, {}),
        CycleSignal("sell", 60, {})>> }

\* strategyService.analyzeSymbol answers with its decisions.
AnalysisAnswers(c, decisions) ==
    /\ cycles[c].pc = "awaitAnalysis"
    /\ CycleStep(c, AfterAnalysis(BotState(c), config, now, status.isRunning,
                                  decisions))

\* The chains getOptionsChain returns to the model's cycles: none, or one
\* contract.
CycleChains(symbol) == { chain \in Chains(symbol) : Len(chain) <= 1 }

\* getOptionsChain answers the executeTrade call of cycle c.
TradeChainAnswers(c, threw) ==
    /\ cycles[c].pc = "awaitTrade"
    /\ cycles[c].trade.pc = "awaitChain"
    /\ LET r == cycles[c].trade IN
       IF threw
       THEN CycleStep(c, AfterTrade(BotState(c), now, status.isRunning,
                         Observed(Caught(r, config, "getOptionsChain",
                                         "getOptionsChain failed", 0), config)))
       ELSE \E optionsChain \in CycleChains(r.symbol) :
               CycleStep(c, AfterTrade(BotState(c), now, status.isRunning,
                            Observed(AfterChain(r, config, optionsChain),
                                     config)))

\* getPosition answers the re-check of the executeTrade call of cycle c.
TradeRecheckAnswers(c, threw) ==
    /\ cycles[c].pc = "awaitTrade"
    /\ cycles[c].trade.pc = "awaitRecheck"
    /\ LET r == cycles[c].trade IN
       CycleStep(c, AfterTrade(BotState(c), now, status.isRunning,
                    Observed(AfterRecheck(r, config, threw,
                                 IF threw THEN {}
                                 ELSE PositionOf(r.symbol, brokerPos[r.symbol])),
                             config)))

\* createOrder / createOptionsOrder answers the executeTrade call of cycle c.
TradeOrderAnswers(c, threw) ==
    /\ cycles[c].pc = "awaitTrade"
    /\ cycles[c].trade.pc \in {"awaitOrder", "awaitOptionsOrder"}
    /\ LET r == cycles[c].trade IN
       CycleStep(c, AfterTrade(BotState(c), now, status.isRunning,
                    Observed(IF r.pc = "awaitOrder"
                             THEN AfterOrder(r, config, threw)
                             ELSE AfterOptionsOrder(r, config, threw),
                             config)))

\* resetMetrics()
ResetMetrics ==
    /\ metrics' = resetMetrics(metrics)
    /\ UNCHANGED <<lastTradeTime, cycles, config, brokerPos, runs>>
    /\ UNCHANGED <<schedVars, botVars, windowVars, strategyVars>>

\* updateConfig's arguments in the model of the cycle: one flag at a time.
CycleConfigUpdates ==
    [useConsensus : BOOLEAN] \cup [dryRun : BOOLEAN] \cup [useOptions : BOOLEAN]

\* The scheduler and the bot after initialize(): the brokerage account was
\* verified and the callback registered; the schedule as loaded, a Monday at
\* 10:00.
Initialized ==
    /\ schedConfig = InitSchedConfig
    /\ status = InitStatus
    /\ intervalId = {}
    /\ timers = {}
    /\ callback = {"cb"}
    /\ startResult = "none"
    /\ now = [ms |-> 0, day |-> 1, hh |-> 10, mm |-> 0]
    /\ ticks = [t \in TickIds |-> IdleTick]
    /\ isInitialized = TRUE
    /\ botStarts = [b \in BotStartIds |-> "idle"]

\* The flags of the config the bot can have been brought to by updateConfig
\* calls before the cycle.
CycleConfigs ==
    { [InitConfig EXCEPT !.useConsensus = useConsensus, !.dryRun = dryRun,
                         !.useOptions = useOptions] :
        useConsensus \in BOOLEAN, dryRun \in BOOLEAN, useOptions \in BOOLEAN }

\* One cycle called by hand, with every brokerage call free to fail, and
\* manual buys and sells of one share beside it.
NextCycle ==
    \/ RunTradingCycle(1)
    \/ \E threw \in BOOLEAN : PositionsAnswer(1, threw)
    \/ \E threw \in BOOLEAN : QuoteAnswers(1, threw)
    \/ MarketChainAnswers(1)
    \/ \E decisions \in CycleSignalLists : AnalysisAnswers(1, decisions)
    \/ \E threw \in BOOLEAN : TradeChainAnswers(1, threw)
    \/ \E threw \in BOOLEAN : TradeRecheckAnswers(1, threw)
    \/ \E threw \in BOOLEAN : TradeOrderAnswers(1, threw)
    \/ \E s \in Symbols : Buy(1, s, 1)
    \/ \E s \in Symbols : Sell(1, s, 1)
    \/ ManualPositionAnswers(1)
    \/ ChainAnswers(1)
    \/ RecheckAnswers(1)
    \/ OrderAnswers(1)
    \/ OptionsOrderAnswers(1)

\* The bot initialized, its flags set one way or another, the first symbol
\* held or not.
InitCycleOnly ==
    /\ InitWindow /\ InitStrategy /\ InitCycle /\ Initialized
    /\ config \in CycleConfigs
    /\ brokerPos \in [Symbols \cup Watched -> {0, 1}]
    /\ \A s \in Watched \ {ConfiguredSymbols[1]} : brokerPos[s] = 0
    /\ runs = [i \in RunIds |-> IdleRun]

SpecCycle == InitCycleOnly /\ [][NextCycle]_vars

\* One cycle called by hand whose brokerage calls all succeed and whose
\* signals hold a buy, and updateConfig calls while it is suspended.
NextUpdate ==
    \/ RunTradingCycle(1)
    \/ PositionsAnswer(1, FALSE)
    \/ QuoteAnswers(1, FALSE)
    \/ MarketChainAnswers(1)
    \/ \E decisions \in { list \in CycleSignalLists :
                            \E k \in 1..Len(list) : list[k].action = "buy" } :
          AnalysisAnswers(1, decisions)
    \/ TradeChainAnswers(1, FALSE)
    \/ TradeRecheckAnswers(1, FALSE)
    \/ TradeOrderAnswers(1, FALSE)
    \/ \E c \in CycleConfigUpdates : UpdateConfig(c)

\* The bot initialized with the config as loaded, no position held.
InitUpdateOnly ==
    /\ InitWindow /\ InitStrategy /\ InitCycle /\ Initialized
    /\ config = InitConfig
    /\ brokerPos = [s \in Symbols \cup Watched |-> 0]
    /\ runs = [i \in RunIds |-> IdleRun]

SpecUpdate == InitUpdateOnly /\ [][NextUpdate]_vars

\* The scheduler driving the bot: start(), stop(), the timer's ticks with
\* `() => runTradingCycle()` as their callback, runTradingCycle() called by
\* hand and resetMetrics(), with cycles whose signals are a buy of one share
\* and whose brokerage calls succeed.
NextScheduled ==
    \/ \E t \in TickIds : Start(t)
    \/ Stop
    \/ \E t \in TickIds : TimerFires(t)
    \/ \E t \in TickIds, response \in {"open", "closed"}, c \in CycleIds :
          TickReachesCallback(t, response, c)
    \/ \E t \in TickIds : RefreshClockAnswers(t, "open")
    \/ \E c \in CycleIds : RunTradingCycle(c)
    \/ \E c \in CycleIds : PositionsAnswer(c, FALSE)
    \/ \E c \in CycleIds : QuoteAnswers(c, FALSE)
    \/ \E c \in CycleIds :
          AnalysisAnswers(c, <<CycleSignal("buy", 90, {1})>>)
    \/ \E c \in CycleIds : TradeOrderAnswers(c, FALSE)
    \/ ResetMetrics

\* The bot initialized and set to trade stocks with the best decision, no
\* position held.
InitScheduledOnly ==
    /\ InitWindow /\ InitStrategy /\ InitCycle /\ Initialized
    /\ config = [InitConfig EXCEPT !.useOptions = FALSE, !.useConsensus = FALSE]
    /\ brokerPos = [s \in Symbols \cup Watched |-> 0]
    /\ runs = [i \in RunIds |-> IdleRun]

SpecScheduled == InitScheduledOnly /\ [][NextScheduled]_vars

----------------------------------------------------------------------------
(* Properties of the trade-execution pipeline (checked under SpecTrade).   *)

\* The invocations that have entered executeTrade.
Entered == { i \in RunIds : runs[i].atEntry # {} }
Returned == { i \in RunIds : runs[i].pc = "returned" }
OutcomeOf(i) == CHOOSE o \in runs[i].outcome : TRUE
\* dry-run was on at every step of the invocation.
DryRunThroughout(i) == runs[i].dryRunSeen = {TRUE}
\* The derivative path's checks all passed.
OptionsChecksPassed(i) ==
    /\ \A p \in runs[i].position : ~(p.qty > 0)
    /\ runs[i].chain = "listed"
    /\ runs[i].bestOption # {}
    /\ runs[i].recheck \in {"clear", "failed"}

\* C1: no order-submission call (createOrder, createOptionsOrder) is made at
\* a moment when dry-run is enabled, and an invocation during which dry-run
\* was on throughout has submitted no order.
C1_NoOrderInDryRun ==
    \A i \in RunIds :
        /\ \A c \in runs[i].atCall : ~c.dryRun
        /\ runs[i].request # {} => runs[i].atCall # {}
        /\ DryRunThroughout(i) =>
              runs[i].request = {} /\ runs[i].pc \notin {"awaitOrder", "awaitOptionsOrder"}

\* C1 witness: dry-run invocations have returned on the stock path and on the
\* derivative path (here the first slot holds a returned derivative buy).
C1_Witness ==
    \E i \in Returned :
        /\ DryRunThroughout(i)
        /\ runs[i].path = "options"
        /\ OutcomeOf(i).success
        /\ runs[i].request = {}

\* C2 as stated: in dry-run mode every outcome has success = true.
C2_DryRunAlwaysSucceeds ==
    \A i \in Returned : DryRunThroughout(i) => OutcomeOf(i).success

\* C2 amended: in dry-run mode the stock path always reports success; the
\* derivative path reports success exactly when its checks passed (passed-in
\* position not > 0, a non-empty chain, a qualifying contract, the re-check
\* finding no quantity > 0 or failing) and a failed outcome otherwise.
C2_DryRunOutcome ==
    \A i \in Returned :
        DryRunThroughout(i) =>
            /\ runs[i].path = "stock" => OutcomeOf(i).success
            /\ runs[i].path = "options" =>
                  (OutcomeOf(i).success <=> OptionsChecksPassed(i))

\* C2 witness: a dry-run stock sell without a position has returned success.
C2_Witness ==
    \E i \in Returned :
        /\ DryRunThroughout(i)
        /\ runs[i].path = "stock"
        /\ runs[i].action = "sell"
        /\ runs[i].position = {}
        /\ OutcomeOf(i).success

SellExceedsHeld(i) ==
    /\ runs[i].action = "sell"
    /\ \/ runs[i].position = {}
       \/ \E p \in runs[i].position, q \in runs[i].quantity : q > p.qty

\* C4 as stated: a sell whose quantity exceeds the held quantity, or without
\* a position, gives a failed outcome with the insufficient-shares reason and
\* submits no order.
C4_SellRejectedInsufficient ==
    \A i \in Entered :
        SellExceedsHeld(i) =>
            /\ runs[i].request = {}
            /\ i \in Returned
            /\ ~OutcomeOf(i).success
            /\ OutcomeOf(i).reason.text = "Insufficient shares to sell"

\* C4 amended: such a sell never submits an order; with dry-run off its
\* outcome is a failed one, with the reason "Insufficient shares to sell" when
\* the quantity is present and > 0 and "Invalid quantity" otherwise; with
\* dry-run on it is the simulated success.
C4_SellExceedingHeld ==
    \A i \in Entered :
        SellExceedsHeld(i) =>
            /\ runs[i].request = {}
            /\ i \in Returned
            /\ OutcomeOf(i).success <=> DryRunThroughout(i)
            /\ ~OutcomeOf(i).success =>
                  /\ OutcomeOf(i).error # {}
                  /\ OutcomeOf(i).reason.text =
                        IF \E q \in runs[i].quantity : q > 0
                        THEN "Insufficient shares to sell"
                        ELSE "Invalid quantity"

\* C4 witness: a sell of more than the held quantity (2 against 1) was
\* rejected for insufficient shares.
C4_Witness ==
    \E i \in Returned :
        /\ runs[i].action = "sell"
        /\ \E p \in runs[i].position, q \in runs[i].quantity :
              p.qty > 0 /\ q > p.qty
        /\ ~OutcomeOf(i).success
        /\ OutcomeOf(i).reason.text = "Insufficient shares to sell"
        /\ runs[i].request = {}

\* C5: with derivatives trading enabled a buy is routed to the derivative
\* path, so the stock endpoint is never called with side buy while it is
\* enabled, and a derivative order is for exactly one contract whatever
\* quantity was requested; a sell takes the stock path.
C5_BuyRoutedToOptions ==
    \A i \in Entered :
        /\ \A e \in runs[i].atEntry :
              (runs[i].action = "buy" /\ e.useOptions) => runs[i].path = "options"
        /\ runs[i].action = "sell" => runs[i].path = "stock"
        /\ \A q \in runs[i].request, c \in runs[i].atCall :
              /\ (q.api = "createOrder" /\ q.side = "buy") => ~c.useOptions
              /\ runs[i].path = "options" =>
                    /\ q.api = "createOptionsOrder"
                    /\ q.qty = {1}
                    /\ q.side = "buy"
              /\ runs[i].path = "stock" =>
                    q.api = "createOrder" /\ q.qty = runs[i].quantity

\* C5 witness: a buy of quantity 2 has submitted a derivative order.
C5_Witness ==
    \E i \in Entered :
        /\ runs[i].action = "buy"
        /\ runs[i].quantity = {MaxQty}
        /\ runs[i].path = "options"
        /\ runs[i].pc = "awaitOptionsOrder"
        /\ \E q \in runs[i].request : q.qty = {1}

\* C6: on the derivative path a passed-in position of quantity > 0 gives a
\* failed outcome naming the existing position before any brokerage call: no
\* chain fetch, no position re-check, no order submission.
C6_PositionShortCircuits ==
    \A i \in Entered :
        (runs[i].path = "options" /\ \E p \in runs[i].position : p.qty > 0) =>
            /\ i \in Returned
            /\ ~OutcomeOf(i).success
            /\ \E p \in runs[i].position :
                  OutcomeOf(i).reason =
                      MsgPos("Already have position in", runs[i].symbol, p.qty)
            /\ runs[i].calls = <<>>
            /\ runs[i].chain = "none"
            /\ runs[i].recheck = "none"
            /\ runs[i].request = {}

\* C6 witness: a derivative buy against a position of the largest held
\* quantity has been rejected.
C6_Witness ==
    \E i \in Returned :
        /\ runs[i].path = "options"
        /\ \E p \in runs[i].position : p.qty = MaxHeld
        /\ ~OutcomeOf(i).success

ThrowingCalls == {"getOptionsChain", "createOrder", "createOptionsOrder"}

\* C7 as stated: executeTrade never throws, and a brokerage call failure
\* (chain fetch, position lookup, order submission) yields success = false
\* with the error text.
C7_EveryFailureFails ==
    \A i \in Entered :
        /\ runs[i].pc # "thrown"
        /\ (i \in Returned /\ runs[i].failed # {}) =>
              ~OutcomeOf(i).success /\ OutcomeOf(i).error # {}

\* C7 amended: executeTrade never throws and every invocation that resolves
\* does so with a TradeOutcome; a failure of the chain fetch or of the order
\* submission yields success = false with the error text; a failure of the
\* derivative path's position re-check is swallowed, the invocation going on
\* as if no position were held (so it can end in success).
C7_NoThrow ==
    \A i \in Entered :
        /\ runs[i].pc # "thrown"
        /\ i \in Returned =>
              /\ runs[i].outcome # {}
              /\ "getOptionsChain" \in runs[i].failed =>
                    /\ ~OutcomeOf(i).success
                    /\ OutcomeOf(i).error = {"getOptionsChain failed"}
              /\ "createOrder" \in runs[i].failed =>
                    /\ ~OutcomeOf(i).success
                    /\ OutcomeOf(i).error = {"createOrder failed"}
              /\ "createOptionsOrder" \in runs[i].failed =>
                    /\ ~OutcomeOf(i).success
                    /\ OutcomeOf(i).error = {"createOptionsOrder failed"}
              /\ runs[i].failed = {"getPosition"} => OutcomeOf(i).success
              /\ ~OutcomeOf(i).success => OutcomeOf(i).error # {}

\* C7 witness: an order submission has failed and the invocation returned a
\* failed outcome carrying the error text.
C7_Witness ==
    \E i \in Returned :
        /\ "createOptionsOrder" \in runs[i].failed
        /\ ~OutcomeOf(i).success
        /\ OutcomeOf(i).error = {"createOptionsOrder failed"}

----------------------------------------------------------------------------
(* Properties of the scheduler's tick (checked under SpecSched).           *)

Begun == { t \in TickIds : ticks[t].pc # "idle" }
Done == { t \in TickIds : ticks[t].pc = "done" }

\* The steps of a tick whose shouldRun returned `result`, in order.
StepsOf(result) ==
    IF result = {TRUE}
    THEN <<"stamp", "shouldRun", "callback", "refresh">>
    ELSE <<"stamp", "shouldRun", "refresh">>

\* C8 as stated: every tick goes through the stamps, shouldRun, the callback
\* (if and only if shouldRun returned true) and the market-open refresh, in
\* this order.
C8_TickRunsAllSteps ==
    \A t \in Done : ticks[t].trace = StepsOf(ticks[t].result)

\* The steps a tick has taken are in the order stamp, shouldRun, callback,
\* refresh, the callback being there exactly when shouldRun returned true;
\* the refresh is missing from a finished tick exactly when the callback threw.
TickInOrder(t) ==
    LET tick == ticks[t]
        full == StepsOf(tick.result)
    IN  /\ tick.pc = "awaitShouldRunClock" =>
              tick.trace = <<"stamp">> /\ tick.result = {}
        /\ tick.pc = "awaitCallback" =>
              tick.trace = SubSeq(full, 1, 3) /\ tick.result = {TRUE}
        /\ tick.pc = "awaitRefreshClock" =>
              tick.trace = SubSeq(full, 1, Len(full) - 1) /\ tick.result # {}
        /\ tick.pc = "done" =>
              /\ tick.result # {}
              /\ tick.threw => tick.result = {TRUE}
              /\ tick.trace = IF tick.threw THEN SubSeq(full, 1, 3) ELSE full

\* A tick begins in slot t in this step.
TickBegins(t) == Finished(ticks[t]) /\ ~Finished(ticks'[t])

\* The stamps are made in the step that begins a tick, and only there.
StampedAtBegin ==
    IF \E t \in TickIds : TickBegins(t)
    THEN /\ status'.totalRuns = status.totalRuns + 1
         /\ status'.lastRun = {now.ms}
         /\ status'.nextRun = {now.ms + schedConfig.intervalMs}
    ELSE /\ status'.totalRuns = status.totalRuns
         /\ status'.lastRun = status.lastRun

\* C8 amended: within every tick lastRun, totalRuns and nextRun are updated
\* first; then shouldRun() is evaluated; then the callback is invoked if and
\* only if shouldRun() returned true; then, unless the callback threw, the
\* cached market-open flag is refreshed (a throwing callback ends the tick
\* in the catch block, without the refresh).
C8_TickOrder ==
    /\ [](\A t \in Begun : TickInOrder(t))
    /\ [][StampedAtBegin]_vars

\* C8 witness: a tick whose shouldRun returned false on a trading day has
\* finished without invoking the callback.
C8_Witness ==
    \E t \in Done :
        /\ ticks[t].result = {FALSE}
        /\ ticks[t].clockCalls = 1
        /\ ticks[t].trace = <<"stamp", "shouldRun", "refresh">>
        /\ status.totalRuns > 0

\* C9: when the weekday is not in tradingDays, shouldRun() returns false
\* without calling the brokerage market-open check (and the callback is not
\* invoked).
C9_NonTradingDay ==
    \A t \in Begun :
        ticks[t].day \notin ticks[t].days =>
            /\ ticks[t].result = {FALSE}
            /\ ticks[t].clockCalls = 0
            /\ ~ticks[t].clockFailed
            /\ \A k \in 1..Len(ticks[t].trace) : ticks[t].trace[k] # "callback"

\* C9 witness: a tick on a Saturday with tradingDays 1..5.
C9_Witness ==
    \E t \in Begun :
        /\ ticks[t].day = 6
        /\ ticks[t].days = {1, 2, 3, 4, 5}
        /\ ticks[t].result = {FALSE}
        /\ ticks[t].clockCalls = 0

\* C10: when the brokerage market-open request fails on a trading weekday,
\* shouldRun() returns what the local time-window check gives: true inside
\* the trading, pre-market or after-hours window and false outside.
C10_OutageFallsBack ==
    \A t \in Begun :
        ticks[t].clockFailed => ticks[t].result = ticks[t].inWindow

----------------------------------------------------------------------------
(* Properties of the time-window arithmetic (checked under SpecWindow).    *)

MinutesPerDay == 24 * 60

\* The minutes of the day a clock passes going forward from `start` to
\* `end`, both included, through midnight when end < start.
MinutesFromTo(start, end) ==
    { (start + k) % MinutesPerDay : k \in 0..((end - start) % MinutesPerDay) }

\* C11: isTimeBetween(current, start, end) is true exactly when
\* start <= current <= end if start <= end, and exactly when current >= start
\* or current <= end if end < start (the window spans midnight); with start
\* 20:00 and end 04:00, 23:00 and 02:00 are inside and 10:00 is outside.
C11_WindowContainment ==
    /\ \A r \in windowCall.result :
          LET current == timeToMinutes(windowCall.currentTime)
              start == timeToMinutes(windowCall.startTime)
              end == timeToMinutes(windowCall.endTime)
          IN  /\ current \in 0..(MinutesPerDay - 1)
              /\ r <=> current \in MinutesFromTo(start, end)
              /\ start <= end => (r <=> (start <= current /\ current <= end))
              /\ end < start => (r <=> (current >= start \/ current <= end))
    /\ isTimeBetween(<<23, 0>>, <<20, 0>>, <<4, 0>>)
    /\ isTimeBetween(<<2, 0>>, <<20, 0>>, <<4, 0>>)
    /\ ~isTimeBetween(<<10, 0>>, <<20, 0>>, <<4, 0>>)

\* C11 witness: a call with a window spanning midnight and a time after
\* midnight has returned true.
C11_Witness ==
    /\ windowCall.result = {TRUE}
    /\ windowCall.startTime = <<20, 0>>
    /\ windowCall.endTime = <<4, 0>>
    /\ windowCall.currentTime = <<2, 0>>

----------------------------------------------------------------------------
(* Properties of start() and stop() (checked under SpecSched and SpecBot). *)

\* scheduler.start() is called in this step (and does not return the answer
\* the call before it returned).
StartCalled == startResult' # startResult

\* C12: start() called while Stopped with no callback registered fails and
\* changes nothing: isRunning stays false, no timer is armed, totalRuns is
\* unchanged (and no tick begins).
C12_StartWithoutCallback ==
    [][(StartCalled /\ ~status.isRunning /\ callback = {}) =>
          /\ startResult' = "no callback"
          /\ ~status'.isRunning
          /\ timers' = {} /\ intervalId' = {}
          /\ UNCHANGED <<status, intervalId, timers, ticks, callback,
                         schedConfig>>]_vars

\* C12 witness: a start() without a callback has failed.
C12_Witness ==
    /\ startResult = "no callback"
    /\ callback = {}
    /\ ~status.isRunning
    /\ timers = {}
    /\ status.totalRuns = 0

\* What stop() makes of the scheduler's state.
Stopped ==
    stop(status, intervalId, timers)

\* C13: stop() moves the scheduler from Running to Stopped and clears the
\* timer, after which no new tick begins (totalRuns and lastRun do not
\* change) until start() is called again; stop() while Stopped changes no
\* state, so stop() followed by stop() equals a single stop().
C13_StopStops ==
    /\ [](/\ ~Stopped.status.isRunning
          /\ Stopped.timers = {} /\ Stopped.intervalId = {}
          /\ stop(Stopped.status, Stopped.intervalId, Stopped.timers) = Stopped
          /\ ~status.isRunning =>
                Stopped = [status |-> status, intervalId |-> intervalId,
                           timers |-> timers])
    /\ [][(status.isRunning /\ ~status'.isRunning) =>
             timers' = {} /\ intervalId' = {}]_vars
    /\ [][(~status.isRunning /\ ~status'.isRunning) =>
             /\ status'.totalRuns = status.totalRuns
             /\ status'.lastRun = status.lastRun
             /\ \A t \in TickIds : ~TickBegins(t)]_vars

\* C13 witness: the scheduler was stopped while a tick was in flight, and
\* the clock has gone on since that tick began.
C13_Witness ==
    /\ ~status.isRunning
    /\ timers = {}
    /\ status.totalRuns > 0
    /\ \E t \in TickIds : ~Finished(ticks[t]) /\ ticks[t].at < now.ms

\* C14: under any interleaving of start(), stop() and ticks (two concurrent
\* bot start() calls included) at most one interval timer is armed, and one
\* is armed exactly when isRunning is true; start() while Running arms no
\* second timer, runs no immediate tick and leaves startTime unchanged.
C14_OneTimer ==
    /\ [](/\ Cardinality(timers) <= 1
          /\ timers # {} <=> status.isRunning
          /\ intervalId = { timer.id : timer \in timers })
    /\ [][(status.isRunning /\ (StartCalled \/ botStarts' # botStarts)) =>
             UNCHANGED <<status, intervalId, timers, ticks>>]_vars

\* C14 witness: of two concurrent bot start() calls, both of which went
\* through initialize(), one started the scheduler and the other found it
\* running.
C14_Witness ==
    /\ \E b, c \in BotStartIds :
          botStarts[b] = "started" /\ botStarts[c] = "already running"
    /\ status.isRunning
    /\ Cardinality(timers) = 1

\* C15: a successful start() from Stopped performs one tick itself, before
\* the first timer fire: totalRuns has increased by one and lastRun is set
\* when start() has run, for any intervalMs.
C15_StartTicks ==
    /\ [][(~status.isRunning /\ status'.isRunning) =>
             /\ status'.totalRuns = status.totalRuns + 1
             /\ status'.lastRun = {now.ms}
             /\ \E t \in TickIds : TickBegins(t) /\ ticks'[t].at = now.ms]_vars
    /\ [](status.isRunning =>
             status.totalRuns >= 1 /\ status.lastRun # {})

\* C15 witness: start() has run with the long interval, and its timer has
\* not fired.
C15_Witness ==
    /\ status.isRunning
    /\ schedConfig.intervalMs = LongIntervalMs
    /\ \A timer \in timers : timer.intervalMs = LongIntervalMs
    /\ status.totalRuns = 1
    /\ status.lastRun = {now.ms}

\* The callback of tick t throws in this step.
CallbackThrows(t) == ticks'[t].threw /\ ~ticks[t].threw

\* C16: if the callback throws during a tick, the error counter increases
\* by exactly one and lastError holds the error text, the scheduler stays
\* Running with its timer armed, and the following tick runs normally (it
\* increments totalRuns and invokes the callback when shouldRun() is true).
C16_CallbackThrows ==
    /\ [][\A t \in TickIds : CallbackThrows(t) =>
             /\ status'.errors = status.errors + 1
             /\ status'.lastError = {"callback failed"}
             /\ status'.isRunning = status.isRunning
             /\ status'.totalRuns = status.totalRuns
             /\ UNCHANGED <<intervalId, timers>>]_vars
    /\ [][status'.errors # status.errors =>
             \E t \in TickIds : CallbackThrows(t)]_vars
    /\ [][\A t \in TickIds : (TickBegins(t) /\ status.errors > 0) =>
             status'.totalRuns = status.totalRuns + 1]_vars
    /\ [](\A t \in Begun : ticks[t].errorsBefore > 0 => TickInOrder(t))

\* C16 witness: a tick begun after a callback failure has invoked the
\* callback and finished, the scheduler still running.
C16_Witness ==
    /\ status.isRunning
    /\ timers # {}
    /\ status.errors = 1
    /\ status.lastError = {"callback failed"}
    /\ \E t \in Done :
          /\ ticks[t].errorsBefore = 1
          /\ ticks[t].trace = <<"stamp", "shouldRun", "callback", "refresh">>

\* C17: totalRuns never decreases over start, stop, restart, ticks and
\* updateConfig, and increases by exactly one per tick (ticks on which
\* shouldRun() is false and ticks whose callback throws included); stopping
\* and restarting does not reset it.
C17_TotalRunsCounts ==
    /\ [][/\ status'.totalRuns >= status.totalRuns
          /\ status'.totalRuns - status.totalRuns =
                Cardinality({ t \in TickIds : TickBegins(t) })]_vars
    /\ [](status.totalRuns >= Cardinality(Begun))

\* C17 witness: the scheduler runs again after a stop, and a tick of the
\* run before (one whose shouldRun returned false) is still counted.
C17_Witness ==
    /\ status.isRunning
    /\ status.totalRuns = 2
    /\ \E t \in Begun :
          /\ \A startTime \in status.startTime : ticks[t].at < startTime
          /\ ticks[t].result = {FALSE}

----------------------------------------------------------------------------
(* Properties of the strategy registry and of the aggregation (checked     *)
(* under SpecStrategy and SpecAggregate).                                  *)

\* The strategies evaluated so far whose call returned a decision with a
\* confidence of at least the strategy's minConfidence.
Kept ==
    { k \in 1..Len(analysis.outcomes) :
        \E d \in analysis.outcomes[k] :
            d.confidence >= analysis.enabledStrategies[k].config.minConfidence }

\* The i-th of them, in the order of evaluation.
KeptAt(i) == CHOOSE k \in Kept : Cardinality({ j \in Kept : j <= k }) = i

\* C18: analyzeSymbol returns exactly the signals of the rules that are
\* enabled (when it is called), whose evaluation did not throw and whose
\* confidence is >= the rule's configured minConfidence, each tagged with
\* the rule's name; a rule that throws contributes no signal and the
\* remaining rules are still evaluated.
C18_AnalyzeSymbol ==
    LET enabled == analysis.enabledStrategies
        decisions == analysis.decisions
    IN  analysis.pc # "idle" =>
        /\ { enabled[k].name : k \in 1..Len(enabled) } =
              { name \in Rules : analysis.registryAtCall[name].enabled }
        /\ \A k \in 1..Len(enabled) :
              enabled[k].config = analysis.registryAtCall[enabled[k].name]
        /\ \A j, k \in 1..Len(enabled) :
              j # k => enabled[j].name # enabled[k].name
        /\ analysis.pc = "returned" => Len(analysis.outcomes) = Len(enabled)
        /\ Len(decisions) = Cardinality(Kept)
        /\ \A i \in 1..Len(decisions) :
              \E d \in analysis.outcomes[KeptAt(i)] :
                  /\ decisions[i].action = d.action
                  /\ decisions[i].confidence = d.confidence
                  /\ decisions[i].quantity = d.quantity
                  /\ decisions[i].strategyName = {enabled[KeptAt(i)].name}

\* C18 witness: of two enabled rules the first threw and the second, whose
\* decision carried a strategyName of its own, gave the one signal returned.
C18_Witness ==
    /\ analysis.pc = "returned"
    /\ Len(analysis.enabledStrategies) = 2
    /\ analysis.outcomes[1] = {}
    /\ \E d \in analysis.outcomes[2] : d.strategyName = {"custom"}
    /\ Len(analysis.decisions) = 1
    /\ analysis.decisions[1].strategyName = {RuleNames[2]}

\* C19: for a non-empty list getBestDecision returns a signal of the list
\* whose confidence is maximal, the first in list order among those of
\* maximal confidence; for the empty list it returns null.
C19_BestDecision ==
    selection.function = "getBestDecision" =>
        LET decisions == selection.decisions
        IN  IF decisions = <<>>
            THEN selection.result = {}
            ELSE \E k \in 1..Len(decisions) :
                    /\ selection.result = {decisions[k]}
                    /\ \A j \in 1..Len(decisions) :
                          decisions[j].confidence <= decisions[k].confidence
                    /\ \A j \in 1..(k - 1) :
                          decisions[j].confidence < decisions[k].confidence

\* C19 witness: two different signals share the highest confidence and the
\* first of them was returned.
C19_Witness ==
    /\ selection.function = "getBestDecision"
    /\ Len(selection.decisions) = 3
    /\ selection.decisions[1].confidence < selection.decisions[2].confidence
    /\ selection.decisions[2].confidence = selection.decisions[3].confidence
    /\ selection.decisions[2] # selection.decisions[3]
    /\ selection.result = {selection.decisions[2]}

\* The number of signals of the list with this action.
Count(decisions, action) ==
    Cardinality({ k \in 1..Len(decisions) : decisions[k].action = action })

\* C20: for a non-empty list getConsensusDecision returns an action whose
\* signal count is >= the count of each other action, ties resolved buy
\* before sell before hold; for the empty list it returns null.
C20_ConsensusDecision ==
    selection.function = "getConsensusDecision" =>
        LET decisions == selection.decisions
            buys == Count(decisions, "buy")
            sells == Count(decisions, "sell")
            holds == Count(decisions, "hold")
        IN  IF decisions = <<>>
            THEN selection.result = {}
            ELSE /\ Cardinality(selection.result) = 1
                 /\ \A r \in selection.result :
                       /\ r.action \in Actions
                       /\ \A a \in Actions :
                             Count(decisions, r.action) >= Count(decisions, a)
                       /\ (buys >= sells /\ buys >= holds) => r.action = "buy"
                       /\ (sells > buys /\ sells >= holds) => r.action = "sell"
                       /\ (holds > buys /\ holds > sells) => r.action = "hold"

\* C20 witness: a sell/hold tie gave sell.
C20_Witness ==
    /\ selection.function = "getConsensusDecision"
    /\ Count(selection.decisions, "sell") = 1
    /\ Count(selection.decisions, "hold") = 1
    /\ Count(selection.decisions, "buy") = 0
    /\ \E r \in selection.result : r.action = "sell"

----------------------------------------------------------------------------
(* Properties of the trading cycle and the metrics (checked under          *)
(* SpecCycle).                                                             *)

\* The step makes invocation i of buy() / sell() resolve with its outcome.
ManualOutcome(i) ==
    /\ runs[i].origin \in {"buy", "sell"} \/ runs'[i].origin \in {"buy", "sell"}
    /\ runs[i].pc # "returned"
    /\ runs'[i].pc = "returned"

\* The step makes the executeTrade call of cycle c resolve with its outcome.
CycleOutcome(c) ==
    /\ cycles[c].pc \in {"awaitAnalysis", "awaitTrade"}
    /\ cycles'[c].log[Len(cycles[c].log)].end = "traded"

\* The step counts one trade for `symbol`, as its outcome tells.
Counted(symbol, outcomes) ==
    \A tradeResult \in outcomes :
        /\ metrics'.totalTrades = metrics.totalTrades + 1
        /\ IF tradeResult.success
           THEN /\ metrics'.successfulTrades = metrics.successfulTrades + 1
                /\ metrics'.failedTrades = metrics.failedTrades
                /\ symbol \in metrics'.symbolsTraded
           ELSE /\ metrics'.failedTrades = metrics.failedTrades + 1
                /\ metrics'.successfulTrades = metrics.successfulTrades
                /\ metrics'.symbolsTraded = metrics.symbolsTraded

\* C21 (as stated): every step that produces a TradeOutcome, in a cycle or in
\* a manual buy() / sell(), adds one to totalTrades and one to exactly one of
\* successfulTrades and failedTrades, and on success the symbol joins the
\* traded symbols.
C21_EveryOutcomeCounted ==
    [][ /\ \A i \in RunIds :
              ManualOutcome(i) => Counted(runs'[i].symbol, runs'[i].outcome)
        /\ \A c \in CycleIds :
              CycleOutcome(c) =>
                  Counted(cycles[c].symbols[cycles[c].k],
                          cycles'[c].log[Len(cycles[c].log)].trade.outcome)
      ]_vars

\* C21 (the part that holds): every outcome executeTrade returns to
\* processSymbol, in a cycle, is counted once, as a success or as a failure,
\* and on success the symbol joins the traded symbols.
C21_CycleOutcomeCounted ==
    [][ \A c \in CycleIds :
           CycleOutcome(c) =>
               Counted(cycles[c].symbols[cycles[c].k],
                       cycles'[c].log[Len(cycles[c].log)].trade.outcome)
      ]_vars

\* A manual buy() has resolved with an outcome and no trade is counted; a
\* cycle has counted a success and a failure.
C21_ManualNotCounted ==
    \E i \in RunIds :
        /\ runs[i].origin = "buy"
        /\ runs[i].pc = "returned"
        /\ metrics.totalTrades = 0

C21_Witness ==
    /\ metrics.successfulTrades = 1
    /\ metrics.failedTrades = 1
    /\ metrics.totalTrades = 2
    /\ metrics.symbolsTraded # {}

\* The brokerage or the strategy service answers the call cycle c awaits.
CycleAnswers(c) ==
    \/ \E threw \in BOOLEAN : PositionsAnswer(c, threw)
    \/ \E threw \in BOOLEAN : QuoteAnswers(c, threw)
    \/ MarketChainAnswers(c)
    \/ \E decisions \in CycleSignalLists : AnalysisAnswers(c, decisions)
    \/ \E threw \in BOOLEAN : TradeChainAnswers(c, threw)
    \/ \E threw \in BOOLEAN : TradeRecheckAnswers(c, threw)
    \/ \E threw \in BOOLEAN : TradeOrderAnswers(c, threw)

\* The cycle got its positions and entered the loop over the symbols.
InLoop(cy) ==
    cy.pc \notin {"idle", "awaitPositions"} /\
    cy.failed \cap {"getPositions", "not started"} = {}

\* processSymbol ended on a failure: of the quote fetch, or of its trade
\* (a failed outcome).
SymbolFailure(entry) ==
    \/ entry.end = "getQuote failed"
    \/ entry.end = "traded" /\ \E o \in entry.trade.outcome : ~o.success

\* C23: a failure while one symbol is processed does not abort the cycle.
\* runTradingCycle never rejects; its symbols are processed one after the
\* other, in the order of config.symbols, whatever way the earlier ones
\* ended; a suspended cycle can always go on when its call is answered; and
\* a cycle that has returned has processed every symbol.
C23_FailureDoesNotAbort ==
    \A c \in CycleIds :
        LET cy == cycles[c] IN
        /\ cy.pc # "thrown"
        /\ InLoop(cy) =>
              /\ Len(cy.log) = cy.k
              /\ \A j \in 1..cy.k :
                    /\ cy.log[j].symbol = cy.symbols[j]
                    /\ (cy.log[j].end = "running") = (j = cy.k /\ cy.pc # "done")
              /\ cy.pc = "done" => cy.k = Len(cy.symbols)
              /\ cy.symbols = config.symbols
        /\ InFlight(cy) => ENABLED CycleAnswers(c)

\* A cycle has returned after the first symbol failed (its quote fetch, or
\* its order) and the second one was traded with success.
C23_Witness ==
    \E c \in CycleIds :
        LET cy == cycles[c] IN
        /\ cy.pc = "done"
        /\ InLoop(cy)
        /\ \E o \in cy.log[1].trade.outcome : ~o.success /\ "createOrder" \in cy.log[1].trade.failed
        /\ \E o \in cy.log[Len(cy.log)].trade.outcome : o.success

\* The same after a failed quote fetch for the first symbol.
C23_QuoteWitness ==
    \E c \in CycleIds :
        LET cy == cycles[c] IN
        /\ cy.pc = "done"
        /\ InLoop(cy)
        /\ cy.log[1].end = "getQuote failed"
        /\ \E o \in cy.log[Len(cy.log)].trade.outcome : o.success

----------------------------------------------------------------------------
(* Properties of config updates during a cycle (checked under SpecUpdate). *)

\* The executeTrade call of the n-th processSymbol of a cycle.
TradeOf(cy, n) ==
    IF cy.log[n].end = "running" THEN cy.trade ELSE cy.log[n].trade

\* C26: an updateConfig made while a cycle is suspended is visible to the
\* rest of that cycle.  Every step in which processSymbol reads a flag finds
\* the value the config has at that step: useOptions after the quote (the
\* chain is fetched when it is on), useConsensus after the analysis (the
\* consensus is taken when it is on, the best decision when off), dryRun and
\* useOptions on entering executeTrade (the derivative path for a buy when
\* useOptions is on; on the stock path a dry-run outcome when dryRun is on).
C26_UpdateVisible ==
    [][ \A c \in CycleIds :
           LET cy == cycles[c]
               after == cycles'[c]
               n == Len(cy.log)
           IN  /\ cy.pc = "awaitQuote" /\ after.log[n].useOptions # {} =>
                     /\ after.log[n].useOptions = {config.useOptions}
                     /\ (after.pc = "awaitOptionsChain") = config.useOptions
               /\ cy.pc = "awaitAnalysis" /\ after.log[n].useConsensus # {} =>
                     /\ after.log[n].useConsensus = {config.useConsensus}
                     /\ \A d \in after.decision :
                           ("metadata" \in DOMAIN d) = config.useConsensus
               /\ cy.pc = "awaitAnalysis" /\ TradeOf(after, n).atEntry # {} =>
                     LET r == TradeOf(after, n) IN
                     /\ r.atEntry = {[dryRun |-> config.dryRun,
                                      useOptions |-> config.useOptions]}
                     /\ (r.path = "options") =
                            (config.useOptions /\ r.action = "buy")
                     /\ r.path = "stock" =>
                            (config.dryRun <=>
                                /\ r.pc = "returned"
                                /\ r.calls = <<>>
                                /\ \E o \in r.outcome : o.success)
      ]_vars

\* A cycle whose two symbols were processed under different values of all
\* three flags: the second one saw the updates made while the first was
\* processed.
C26_Witness ==
    \E c \in CycleIds :
        LET cy == cycles[c] IN
        /\ Len(cy.log) = 2
        /\ cy.log[1].trade.atEntry # {}
        /\ TradeOf(cy, 2).atEntry # {}
        /\ cy.log[1].useOptions # cy.log[2].useOptions
        /\ cy.log[1].useConsensus # cy.log[2].useConsensus
        /\ \A e1 \in cy.log[1].trade.atEntry, e2 \in TradeOf(cy, 2).atEntry :
              e1.dryRun # e2.dryRun /\ e1.useOptions # e2.useOptions

----------------------------------------------------------------------------
(* Properties of the cycles under the scheduler (checked under             *)
(* SpecScheduled).                                                         *)

\* What the reads of the metrics show: getMetrics(), getStatus() and
\* getPerformanceSummary() all show no trade.
ZeroReads ==
    /\ getMetrics(metrics) = ZeroMetrics
    /\ getStatus(status, metrics, config).metrics = ZeroMetrics
    /\ LET summary == getPerformanceSummary(metrics, lastTradeTime)
       IN  /\ summary.totalTrades = 0
           /\ summary.successRate = 0
           /\ summary.symbolsTraded = 0
           /\ summary.strategiesUsed = 0

\* C22: resetMetrics() leaves every read of the metrics at zero counts, a
\* zero success rate and empty symbol and rule sets, whatever they were and
\* whether the scheduler is running or not, and the reads stay so until a
\* step produces a trade outcome; resetMetrics() leaves the scheduler's
\* status and config, the bot's config and the strategy registry unchanged.
C22_ResetMetrics ==
    [][ /\ ResetMetrics =>
              /\ ZeroReads'
              /\ UNCHANGED <<status, schedConfig, intervalId, timers, config,
                             strategies, cycles>>
        /\ ZeroReads /\ ~(\E c \in CycleIds : CycleOutcome(c)) => ZeroReads'
      ]_vars

\* The metrics read zero after trades were counted (the last trade's time is
\* still known), with the scheduler running and a cycle in flight.
C22_Witness ==
    /\ ZeroReads
    /\ lastTradeTime # {}
    /\ status.isRunning
    /\ \E c \in CycleIds : InFlight(cycles[c]) /\ Len(cycles[c].log) = 2

\* The same with the scheduler stopped.
C22_StoppedWitness ==
    /\ ZeroReads
    /\ lastTradeTime # {}
    /\ ~status.isRunning

\* C24: stop() does not interrupt a cycle in flight.  The step that stops
\* the scheduler leaves every cycle and the metrics as they are; a suspended
\* cycle can go on when its call is answered, running or stopped; and a cycle
\* that has returned has processed every symbol.
C24_StopDoesNotInterrupt ==
    /\ [](\A c \in CycleIds :
             LET cy == cycles[c] IN
             /\ cy.pc # "thrown"
             /\ InFlight(cy) => ENABLED CycleAnswers(c)
             /\ cy.pc = "done" /\ InLoop(cy) =>
                   /\ cy.k = Len(cy.symbols)
                   /\ \A j \in 1..cy.k : cy.log[j].end # "running")
    /\ [][ status.isRunning /\ ~status'.isRunning =>
              cycles' = cycles /\ metrics' = metrics ]_vars

\* A scheduled cycle was stopped under after its first symbol's order: it
\* submitted the second symbol's order with the scheduler stopped, counted
\* both trades and returned, the scheduler still stopped and no timer armed.
C24_Witness ==
    \E c \in CycleIds :
        LET cy == cycles[c] IN
        /\ cy.origin = "tick"
        /\ cy.pc = "done"
        /\ InLoop(cy)
        /\ \E o \in cy.log[1].order : o.isRunning
        /\ \E o \in cy.log[2].order : ~o.isRunning
        /\ \E o \in cy.log[2].trade.outcome : o.success
        /\ ~status.isRunning
        /\ timers = {}
        /\ metrics.totalTrades = 2

\* C25: nothing serialises cycles.  While a cycle is in flight, a manual
\* runTradingCycle() starts another one, a tick whose shouldRun is answered
\* starts another one, an armed timer fires the next tick, and stop() and
\* then start() begin a new tick; the cycles work on the one config and the
\* one metrics object.
C25_CyclesOverlap ==
    \A c, other \in CycleIds :
        InFlight(cycles[c]) /\ FreeCycle(other) =>
            /\ ENABLED (RunTradingCycle(other) /\ InFlight(cycles'[other]))
            /\ \A t \in TickIds :
                  ticks[t].pc = "awaitShouldRunClock" =>
                      ENABLED (/\ TickReachesCallback(t, "open", other)
                               /\ InFlight(cycles'[other]))
            /\ \A t \in TickIds :
                  FreeTick(t) /\ status.totalRuns < MaxTotalRuns =>
                      /\ timers # {} => ENABLED TimerFires(t)
                      /\ ENABLED Stop
                      /\ ~status.isRunning => ENABLED Start(t)

\* Two cycles are in flight, one called by hand during one a tick started,
\* and each has had a trade counted in the metrics.
C25_Witness ==
    \E c, other \in CycleIds :
        /\ InFlight(cycles[c]) /\ cycles[c].origin = "tick"
        /\ InFlight(cycles[other]) /\ cycles[other].origin = "manual"
        /\ Len(cycles[c].log) = 2 /\ Len(cycles[other].log) = 2
        /\ metrics.totalTrades = 2
        /\ metrics.symbolsTraded = {ConfiguredSymbols[1]}

\* Two cycles started by two ticks are in flight, the scheduler running.
C25_TwoTicksWitness ==
    \E c, other \in CycleIds :
        /\ c # other
        /\ InFlight(cycles[c]) /\ cycles[c].origin = "tick"
        /\ InFlight(cycles[other]) /\ cycles[other].origin = "tick"
        /\ cycles[c].tick # cycles[other].tick

----------------------------------------------------------------------------
(* The stock path's validation and its order *)

\* The invocations that took the stock path with dry-run off.
StockRuns ==
    { i \in RunIds :
        /\ runs[i].path = "stock"
        /\ \E e \in runs[i].atEntry : ~e.dryRun }

\* The quantity is a number above zero.
QuantityGiven(r) == \E q \in r.quantity : q > 0

\* What the stock path asks of the position handed to it.
PositionAllows(r) ==
    /\ r.action = "sell" =>
          \E p \in r.position, q \in r.quantity : p.qty >= q
    /\ r.action = "buy" => ~(\E p \in r.position : p.qty > 0)

\* C28: on the stock path with dry-run off, createOrder is called only when
\* the quantity is present and above zero, a sell has a position holding at
\* least the quantity and a buy has no position above zero; then the order
\* is a market, day order of that quantity and side and the only brokerage
\* call of the invocation.  In every other case the invocation has returned
\* a failed outcome whose reason and error are the validation reason
\* ("Invalid quantity" when the quantity is missing or not above zero) and
\* no call was made.
C28_StockOrderValidated ==
    \A i \in StockRuns :
       LET r == runs[i] IN
       IF QuantityGiven(r) /\ PositionAllows(r)
       THEN /\ r.request = {[api |-> "createOrder", symbol |-> r.symbol,
                             qty |-> r.quantity, side |-> r.action,
                             type |-> "market", time_in_force |-> "day"]}
            /\ r.calls = <<"createOrder">>
       ELSE /\ r.request = {}
            /\ r.calls = <<>>
            /\ r.pc = "returned"
            /\ \E o \in r.outcome :
                  /\ ~o.success
                  /\ o.orderId = {}
                  /\ o.error = {o.reason.text}
                  /\ o.reason.text \in {"Invalid quantity",
                                        "Insufficient shares to sell",
                                        "Already have position in"}
                  /\ ~QuantityGiven(r) <=> o.reason.text = "Invalid quantity"
                  /\ o.reason.text = "Insufficient shares to sell"
                        => r.action = "sell"
                  /\ o.reason.text = "Already have position in"
                        => r.action = "buy"

\* A sell of exactly the held quantity was submitted; the brokerage answered.
C28_Witness ==
    \E i \in StockRuns :
       /\ runs[i].action = "sell" /\ runs[i].quantity = {MaxQty}
       /\ runs[i].position = PositionOf(runs[i].symbol, MaxQty)
       /\ runs[i].request # {} /\ runs[i].pc = "returned"
       /\ \E o \in runs[i].outcome : o.success /\ o.orderId # {}

\* A buy of quantity zero was turned away.
C28_ZeroQuantityWitness ==
    \E i \in StockRuns :
       /\ runs[i].action = "buy" /\ runs[i].quantity = {0}
       /\ runs[i].position = {}
       /\ \E o \in runs[i].outcome : o.reason.text = "Invalid quantity"

----------------------------------------------------------------------------
(* The derivative path under every contract filter *)

\* Configurations of the derivative path: either option type, no strike
\* limit, a limit of zero, and one that some listed contracts exceed.
OptionsConfigs ==
    { [InitConfig EXCEPT !.optionType = t, !.maxStrikePrice = m, !.dryRun = d] :
        t \in {"call", "put"}, m \in {{}, {0}, {90}}, d \in BOOLEAN }

NextOptions ==
    \/ \E i \in RunIds, s \in Symbols, q \in Quantities, h \in HeldQuantities :
          CycleTrade(i, s, "buy", q, h)
    \/ \E i \in RunIds, s \in Symbols : Buy(i, s, 1)
    \/ \E i \in RunIds : ManualPositionAnswers(i)
    \/ \E i \in RunIds : ChainAnswers(i)
    \/ \E i \in RunIds : RecheckAnswers(i)
    \/ \E i \in RunIds : OptionsOrderAnswers(i)
    \/ \E s \in Symbols, h \in HeldQuantities : PositionChanges(s, h)

InitOptionsOnly ==
    /\ InitSched /\ InitBot /\ InitWindow /\ InitStrategy /\ InitCycle
    /\ config \in OptionsConfigs
    /\ brokerPos \in [Symbols \cup Watched -> HeldQuantities]
    /\ \A s \in Watched \ Symbols : brokerPos[s] = 0
    /\ runs = [i \in RunIds |-> IdleRun]
    /\ schedConfig = InitSchedConfig
    /\ now = [ms |-> 0, day |-> 1, hh |-> 10, mm |-> 0]

SpecOptions == InitOptionsOnly /\ [][NextOptions]_vars

\* The contract passes the five filters of the configuration.
Suitable(option, cfg) ==
    /\ option.type = cfg.optionType
    /\ option.tradable
    /\ option.status = "active"
    /\ option.open_interest >= cfg.minVolume
    /\ \A m \in cfg.maxStrikePrice : m # 0 => option.strike_price <= m

\* The invocation returned a failed outcome and submitted nothing.
Refused(r, error) ==
    /\ r.pc = "returned" /\ r.request = {}
    /\ \A k \in 1..Len(r.calls) : r.calls[k] # "createOptionsOrder"
    /\ \E o \in r.outcome : ~o.success /\ o.orderId = {} /\ o.error = {error}

C29_NoSuitableWitness ==
    \E i \in RunIds :
       /\ runs[i].path = "options" /\ runs[i].chain = "listed"
       /\ config.maxStrikePrice = {90} /\ config.optionType = "put"
       /\ runs[i].bestOption = {}

----------------------------------------------------------------------------
(* buy() and sell() as seen by their caller *)

\* C30: buy() and sell() always resolve to a TradeResult; no failure of a
\* brokerage call, the position lookup included, reaches the caller as a
\* rejection.
C30_ManualAlwaysResolves ==
    \A i \in RunIds :
       runs[i].origin \in {"buy", "sell"} =>
          /\ runs[i].pc # "thrown"
          /\ runs[i].pc = "returned" => runs[i].outcome # {}

\* buy() rejected: its position lookup failed.
C30_ManualRejected ==
    \E i \in RunIds :
       /\ runs[i].origin = "buy" /\ runs[i].pc = "thrown"
       /\ runs[i].atEntry = {} /\ runs[i].outcome = {}

----------------------------------------------------------------------------
(* The session arithmetic of scheduler.ts: getNextTradingDay,              *)
(* getMarketOpenTime and getTimeUntilNextSession.  The Dates these build   *)
(* are counted in minutes from the midnight, in the process's time zone,   *)
(* of the day of the call; zoneShift is the number of hours                *)
(* config.timezone is ahead of the process's zone.  Every day has 24       *)
(* hours (no change of clocks in between).                                 *)

MaxWalk == 7    \* steps of getNextTradingDay's walk the model follows

\* The same zone; New York (winter) seen from a process running in UTC, and
\* from one running in Los Angeles.
ZoneShifts == {0, -5, 3}

MsPerMinute == 60 * 1000

\* The process-local minutes since midnight of the clock: formatTime renders
\* it in config.timezone.
LocalMinutes(date, zoneShift) ==
    (timeToMinutes(formatTime(date)) - zoneShift * 60) % MinutesPerDay

\* date.getDay() of the Date `minutes` after the local midnight of the call.
GetDay(date, minutes) == (date.day + minutes \div MinutesPerDay) % 7

\* formatTime of the Date `minutes` after the local midnight of the call.
formatTimeAt(minutes, zoneShift) ==
    LET m == (minutes + zoneShift * 60) % MinutesPerDay
    IN  <<m \div 60, m % 60>>

\* `do { nextDay.setDate(nextDay.getDate() + 1) } while (!includes(getDay()))`:
\* the days walked, none when the walk has not ended after MaxWalk steps.
RECURSIVE NextDayWalk(_, _, _)
NextDayWalk(cfg, date, nextDay) ==
    IF IsTradingDay(cfg, GetDay(date, nextDay * MinutesPerDay))
    THEN {nextDay}
    ELSE IF nextDay >= MaxWalk THEN {}
    ELSE NextDayWalk(cfg, date, nextDay + 1)

getNextTradingDay(cfg, date) == NextDayWalk(cfg, date, 1)

\* `marketOpen.setHours(hours, minutes, 0, 0)` on the Date `days` ahead
getMarketOpenTime(cfg, days) ==
    days * MinutesPerDay + timeToMinutes(cfg.tradingStartTime)

\* The hours, minutes and seconds of a difference in milliseconds.
SessionDelta(diffMs) ==
    [hours |-> diffMs \div (1000 * 60 * 60),
     minutes |-> (diffMs % (1000 * 60 * 60)) \div (1000 * 60),
     seconds |-> (diffMs % (1000 * 60)) \div 1000]

getTimeUntilNextSession(cfg, date, zoneShift) ==
    LET currentTime == formatTime(date)
        currentDay == date.day
        nowMinutes == LocalMinutes(date, zoneShift)
    IN  IF IsTradingDay(cfg, currentDay) /\ isWithinTradingHours(cfg, currentTime)
        THEN {[hours |-> 0, minutes |-> 0, seconds |-> 0]}
        ELSE LET todayOpen == getMarketOpenTime(cfg, 0)
                 nextSession ==
                    IF IsTradingDay(cfg, currentDay) /\ nowMinutes < todayOpen
                    THEN {todayOpen}
                    ELSE { getMarketOpenTime(cfg, days) :
                             days \in getNextTradingDay(cfg, date) }
             IN  { SessionDelta((n - nowMinutes) * MsPerMinute) :
                     n \in nextSession }

\* getTimeUntilNextSession() is called in a process whose zone is zoneShift
\* hours behind config.timezone.
GetTimeUntilNextSessionCalled(zoneShift) ==
    /\ sessionCall' = [called |-> TRUE, date |-> now, zoneShift |-> zoneShift,
                       result |-> getTimeUntilNextSession(schedConfig, now,
                                                          zoneShift)]
    /\ UNCHANGED <<windowCall, hoursCall, tradeVars, schedVars, botVars,
                   strategyVars>>

NextSession ==
    \E zoneShift \in ZoneShifts : GetTimeUntilNextSessionCalled(zoneShift)

\* Times of day around the boundaries of the sessions.
SessionTimes ==
    {<<2, 0>>, <<4, 0>>, <<9, 29>>, <<9, 30>>, <<16, 0>>, <<19, 30>>,
     <<20, 1>>, <<21, 0>>, <<23, 30>>}

\* Schedules updateConfig can set: trading days, with and without the
\* pre-market and after-hours bounds.
SessionConfigs ==
    { [InitSchedConfig EXCEPT !.tradingDays = days, !.preMarketStart = pre,
                              !.afterHoursEnd = post] :
        days \in {{1, 2, 3, 4, 5}, {0, 1, 2, 3, 4, 5, 6}, {2, 4}, {6}},
        pre \in {{<<4, 0>>}, {}}, post \in {{<<20, 0>>}, {}} }

InitSessionOnly ==
    /\ config = InitConfig
    /\ brokerPos = [s \in Symbols \cup Watched |-> 0]
    /\ runs = [i \in RunIds |-> IdleRun]
    /\ InitBot /\ InitWindow /\ InitStrategy /\ InitCycle
    /\ schedConfig \in SessionConfigs
    /\ status = InitStatus
    /\ intervalId = {}
    /\ timers = {}
    /\ callback = {}
    /\ startResult = "none"
    /\ now \in [ms : {0}, day : Weekdays, hh : 0..23, mm : 0..59]
    /\ <<now.hh, now.mm>> \in SessionTimes
    /\ ticks = [t \in TickIds |-> IdleTick]

SpecSession == InitSessionOnly /\ [][NextSession]_vars

\* What is said of a call: zeros when the weekday is a trading day and the
\* time is inside the window; otherwise a delta that is not negative and
\* leads to an instant whose weekday is a trading day and whose time of
\* day is the start of trading.
SessionAnswer(call) ==
    /\ call.result # {}
    /\ \A d \in call.result :
          LET target == LocalMinutes(call.date, call.zoneShift)
                           + d.hours * 60 + d.minutes
          IN  IF /\ call.date.day \in schedConfig.tradingDays
                 /\ isWithinTradingHours(schedConfig,
                                         <<call.date.hh, call.date.mm>>)
              THEN d = [hours |-> 0, minutes |-> 0, seconds |-> 0]
              ELSE /\ d.hours >= 0 /\ d.minutes >= 0 /\ d.seconds >= 0
                   /\ GetDay(call.date, target) \in schedConfig.tradingDays
                   /\ formatTimeAt(target, call.zoneShift)
                         = schedConfig.tradingStartTime

\* C27: getTimeUntilNextSession() returns zeros whenever the current weekday
\* is in tradingDays and the current time lies inside the trading window;
\* otherwise the delta is non-negative and points to the open time of a day
\* whose weekday is in tradingDays.
C27_NextSessionDelta ==
    sessionCall.called => SessionAnswer(sessionCall)

\* The same holds of every call made in a process whose zone is
\* config.timezone.
C27_SameZoneDelta ==
    sessionCall.called /\ sessionCall.zoneShift = 0 =>
       SessionAnswer(sessionCall)

\* Sunday 21:00 in New York, Monday 02:00 in the process's zone (UTC): the
\* answer is 7 h 30 min, Monday 09:30 UTC, which is 04:30 in New York.
C27_WrongOpenTime ==
    /\ sessionCall.called /\ sessionCall.zoneShift = -5
    /\ schedConfig = InitSchedConfig
    /\ sessionCall.date.day = 1
    /\ <<sessionCall.date.hh, sessionCall.date.mm>> = <<21, 0>>
    /\ sessionCall.result = {[hours |-> 7, minutes |-> 30, seconds |-> 0]}
    /\ formatTimeAt(2 * 60 + 7 * 60 + 30, -5) = <<4, 30>>

\* A call on a Saturday evening in the same zone answers with the time to
\* Monday's open.
C27_SameZoneWitness ==
    /\ sessionCall.called /\ sessionCall.zoneShift = 0
    /\ schedConfig = InitSchedConfig
    /\ sessionCall.date.day = 6
    /\ <<sessionCall.date.hh, sessionCall.date.mm>> = <<21, 0>>
    /\ sessionCall.result = {[hours |-> 36, minutes |-> 30, seconds |-> 0]}

----------------------------------------------------------------------------
(* The trading-hours check under schedule updates: updateConfig and        *)
(* isTimeInTradingHours.                                                   *)

\* isTimeInTradingHours(time): `isWithinTradingHours(formatTime(time))`
isTimeInTradingHours(cfg, time) == isWithinTradingHours(cfg, formatTime(time))

\* isTimeInTradingHours(time) is called.
IsTimeInTradingHoursCalled(time) ==
    /\ hoursCall' = [called |-> TRUE, time |-> time, config |-> {schedConfig},
                     result |-> {isTimeInTradingHours(schedConfig, time)}]
    /\ UNCHANGED <<windowCall, sessionCall, tradeVars, schedVars, botVars,
                   strategyVars>>

\* Schedule updates: the regular session by day or overnight, the
\* pre-market and after-hours bounds set or cleared.
HoursConfigUpdates ==
    [tradingStartTime : {<<9, 30>>, <<20, 0>>},
     tradingEndTime : {<<16, 0>>, <<4, 0>>}]
    \cup [preMarketStart : {{}, {<<4, 0>>}}]
    \cup [afterHoursEnd : {{}, {<<20, 0>>}}]

NextHours ==
    \/ \E c \in HoursConfigUpdates : UpdateSchedConfig(c)
    \/ \E hhmm \in WindowTimes :
          IsTimeInTradingHoursCalled([ms |-> 0, day |-> 1, hh |-> hhmm[1],
                                      mm |-> hhmm[2]])

SpecHours == InitWindowOnly /\ [][NextHours]_vars

\* The schedule of a call is the default one with the regular session set
\* to 20:00-04:00.
OvernightSession(cfg) ==
    /\ cfg.tradingStartTime = <<20, 0>>
    /\ cfg.tradingEndTime = <<4, 0>>

C31_ClearedWitness ==
    /\ hoursCall.called
    /\ \E cfg \in hoursCall.config :
          /\ OvernightSession(cfg)
          /\ cfg.preMarketStart = {} /\ cfg.afterHoursEnd = {}
    /\ formatTime(hoursCall.time) = <<10, 0>>
    /\ hoursCall.result = {FALSE}

----------------------------------------------------------------------------
(* The scheduler against the clock: the interval timer fires intervalMs    *)
(* after setInterval and every intervalMs from then on (an exact timer),   *)
(* and time does not pass a firing that is due.                            *)

\* The armed timers whose period has elapsed once more at `date`.
DueTimers(armed, date) ==
    { timer \in armed :
        /\ date.ms > timer.armedAt
        /\ (date.ms - timer.armedAt) % timer.intervalMs = 0 }

\* A timer is due and its executeCallback has not begun.
TimerDue == DueTimers(timers, now) # {} /\ status.lastRun # {now.ms}

\* The interval timer fires on time: executeCallback up to its first await.
TimerFiresOnTime(t) ==
    /\ TimerDue
    /\ FreeTick(t)
    /\ status' = Stamp(status, schedConfig, now)
    /\ ticks' = [ticks EXCEPT ![t] = BeginTick(status, schedConfig, callback, now)]
    /\ UNCHANGED <<schedConfig, intervalId, timers, callback, startResult, now>>
    /\ UNCHANGED nonSchedVars

\* Time passes, up to the next firing at most.
TimePasses(elapsed) ==
    /\ ~TimerDue
    /\ now.ms + elapsed <= MaxClock * DefaultIntervalMs
    /\ now' = [now EXCEPT !.ms = @ + elapsed]
    /\ UNCHANGED <<schedConfig, status, intervalId, timers, callback,
                   startResult, ticks>>
    /\ UNCHANGED nonSchedVars

\* updateConfig({intervalMs})
IntervalUpdates == [intervalMs : IntervalChoices]

NextTimer ==
    \/ SetCallback
    \/ \E t \in TickIds : Start(t)
    \/ Stop
    \/ \E t \in TickIds : TimerFiresOnTime(t)
    \/ \E t \in TickIds, response \in {"open", "closed"} :
          ShouldRunClockAnswers(t, response)
    \/ \E t \in TickIds : CallbackSettles(t)
    \/ \E t \in TickIds, response \in {"open", "closed"} :
          RefreshClockAnswers(t, response)
    \/ \E c \in IntervalUpdates : UpdateSchedConfig(c)
    \/ TimePasses(DefaultIntervalMs)

SpecTimer == InitSchedOnly /\ [][NextTimer]_vars

\* C32: in every Running state the armed timer fires with a period equal to
\* the current intervalMs, so a tick begun by the timer begins at the
\* nextRun the tick before it set, whatever start, stop and updateConfig
\* calls were made, an updateConfig of intervalMs while Running included.
C32_TimerFollowsInterval ==
    /\ [](status.isRunning =>
             \A timer \in timers : timer.intervalMs = schedConfig.intervalMs)
    /\ [][\A t \in TickIds :
             TimerFiresOnTime(t) => status.nextRun = {now.ms}]_vars

\* The timer keeps the period it was armed with: every tick it begins is a
\* whole number of that period after start() and one period after the tick
\* before it.
C32_TimerKeepsPeriod ==
    [][\A t \in TickIds :
          TimerFiresOnTime(t) =>
             /\ \E timer \in timers :
                   /\ intervalId = {timer.id}
                   /\ status.startTime = {timer.armedAt}
                   /\ (now.ms - timer.armedAt) % timer.intervalMs = 0
                   /\ status.lastRun = {now.ms - timer.intervalMs}]_vars

\* Started with 30 s, intervalMs then set to an hour: the second tick of the
\* timer begins 30 s after the first, whose nextRun was an hour away.
C32_StaleperiodTick ==
    /\ status.isRunning
    /\ schedConfig.intervalMs = LongIntervalMs
    /\ \E timer \in timers : timer.intervalMs = DefaultIntervalMs
                             /\ timer.armedAt = 0
    /\ now.ms = 2 * DefaultIntervalMs
    /\ status.lastRun = {now.ms}
    /\ status.nextRun = {now.ms + LongIntervalMs}
    /\ status.totalRuns = 3

----------------------------------------------------------------------------
(* The walk over days under every tradingDays value updateConfig accepts.  *)
(* The weekdays the walk meets repeat after seven steps, so a walk that    *)
(* has not ended after MaxWalk steps never ends.                           *)

\* tradingDays values: the default, one day, none, and one that is no
\* weekday.
WalkConfigs ==
    { [InitSchedConfig EXCEPT !.tradingDays = days] :
        days \in {{1, 2, 3, 4, 5}, {6}, {}, {7}} }

InitWalkOnly ==
    /\ config = InitConfig
    /\ brokerPos = [s \in Symbols \cup Watched |-> 0]
    /\ runs = [i \in RunIds |-> IdleRun]
    /\ InitBot /\ InitWindow /\ InitStrategy /\ InitCycle
    /\ schedConfig \in WalkConfigs
    /\ status = InitStatus
    /\ intervalId = {}
    /\ timers = {}
    /\ callback = {}
    /\ startResult = "none"
    /\ now \in [ms : {0}, day : Weekdays, hh : 0..23, mm : 0..59]
    /\ <<now.hh, now.mm>> \in SessionTimes
    /\ ticks = [t \in TickIds |-> IdleTick]

SpecWalk == InitWalkOnly /\ [][NextSession]_vars

\* C33: getNextTradingDay() and getTimeUntilNextSession() terminate for
\* every tradingDays value the configuration accepts, the empty set and
\* sets without a weekday included: the walk stops after at most 7 steps
\* at a day whose weekday is in tradingDays.
C33_WalkTerminates ==
    sessionCall.called =>
       /\ sessionCall.result # {}
       /\ getNextTradingDay(schedConfig, sessionCall.date) # {}
       /\ \A days \in getNextTradingDay(schedConfig, sessionCall.date) :
             /\ days <= 7
             /\ GetDay(sessionCall.date, days * MinutesPerDay)
                   \in schedConfig.tradingDays

\* With a weekday among the trading days the walk does stop, within 7
\* steps and at a trading day, and the call returns.
C33_WalkEndsWithTradingDay ==
    sessionCall.called /\ schedConfig.tradingDays \cap Weekdays # {} =>
       /\ sessionCall.result # {}
       /\ \E days \in 1..7 :
             /\ getNextTradingDay(schedConfig, sessionCall.date) = {days}
             /\ (sessionCall.date.day + days) % 7 \in schedConfig.tradingDays
             /\ \A earlier \in 1..(days - 1) :
                   (sessionCall.date.day + earlier) % 7
                      \notin schedConfig.tradingDays

\* Without one the call does not return: tradingDays is empty, and the walk
\* is still going after MaxWalk steps.
C33_EmptyDaysWalk ==
    /\ sessionCall.called /\ schedConfig.tradingDays = {}
    /\ sessionCall.result = {}
    /\ NextDayWalk(schedConfig, sessionCall.date, 1) = {}

\* The same with a tradingDays value that holds no weekday.
C33_NoWeekdayWalk ==
    /\ sessionCall.called /\ schedConfig.tradingDays = {7}
    /\ sessionCall.result = {}

----------------------------------------------------------------------------
(* The used-rule set *)

\* The processSymbol calls of the cycles that ended with a successful trade
\* and read config.useConsensus as `consensus`.
SuccessfulEntries(consensus) ==
    { entry \in UNION { { cycles[c].log[k] : k \in 1..Len(cycles[c].log) } :
                          c \in CycleIds } :
        /\ entry.end = "traded"
        /\ entry.useConsensus = {consensus}
        /\ \E o \in entry.trade.outcome : o.success }

\* The rules whose signals the model's cycles aggregate.
SignalRules ==
    UNION { { list[k].strategyName : k \in 1..Len(list) } :
              list \in CycleSignalLists }

\* C34: after a successful trade executed from a cycle, strategiesUsed
\* contains the name of a rule whose signal formed the executed decision,
\* under the Best and under the Consensus policy.
C34_UsedRuleRecorded ==
    SuccessfulEntries(TRUE) \cup SuccessfulEntries(FALSE) # {} =>
       \E name \in UNION SignalRules : name \in metrics.strategiesUsed

\* Under the Best policy it does: the decision executed is the rule's own
\* signal, which carries the rule's name.
C34_BestRecordsRule ==
    SuccessfulEntries(FALSE) # {} =>
       \E name \in UNION SignalRules : name \in metrics.strategiesUsed

\* Under the Consensus policy a trade succeeded and was counted, and the
\* used-rule set is empty.
C34_ConsensusLeavesSetEmpty ==
    /\ SuccessfulEntries(TRUE) # {}
    /\ metrics.successfulTrades = 1
    /\ metrics.symbolsTraded # {}
    /\ metrics.strategiesUsed = {}

\* Under the Best policy a trade succeeded and the rule is in the set.
C34_BestWitness ==
    /\ SuccessfulEntries(FALSE) # {}
    /\ metrics.strategiesUsed = {RuleNames[1]}

----------------------------------------------------------------------------
(* The counters of the metrics *)

\* Cycles called by hand that overlap, whose signals are a buy of one share
\* or a sell, whose orders the brokerage accepts or refuses, and
\* resetMetrics() at any moment.
NextMetrics ==
    \/ \E c \in CycleIds : RunTradingCycle(c)
    \/ \E c \in CycleIds : PositionsAnswer(c, FALSE)
    \/ \E c \in CycleIds : QuoteAnswers(c, FALSE)
    \/ \E c \in CycleIds, action \in {"buy", "sell"} :
          AnalysisAnswers(c, <<CycleSignal(action, 90,
                                  IF action = "buy" THEN {1} ELSE {})>>)
    \/ \E c \in CycleIds, threw \in BOOLEAN : TradeOrderAnswers(c, threw)
    \/ ResetMetrics

SpecMetrics == InitScheduledOnly /\ [][NextMetrics]_vars

\* The processSymbol calls of cycle c that reached the metrics update.
TradedEntries(c) ==
    { k \in 1..Len(cycles[c].log) : cycles[c].log[k].end = "traded" }

\* C35: in every state between atomic steps, under any interleaving of
\* cycles, overlapping cycles and resetMetrics(), totalTrades =
\* successfulTrades + failedTrades, successfulTrades <= totalTrades (so
\* the success rate, in hundredths of a percent, is within 0..10000), the
\* number of traded symbols is at most successfulTrades, and the set of
\* traded symbols is empty whenever successfulTrades = 0.
C35_CountersConsistent ==
    /\ metrics.totalTrades = metrics.successfulTrades + metrics.failedTrades
    /\ metrics.successfulTrades <= metrics.totalTrades
    /\ getPerformanceSummary(metrics, lastTradeTime).successRate \in 0..10000
    /\ Cardinality(metrics.symbolsTraded) <= metrics.successfulTrades
    /\ metrics.successfulTrades = 0 => metrics.symbolsTraded = {}

\* Two cycles overlap, both have counted trades, a reset fell between them
\* (fewer trades are counted than the cycles made), and since the reset a
\* success and a failure were counted.
C35_Witness ==
    /\ \A c \in CycleIds : TradedEntries(c) # {}
    /\ \E c \in CycleIds : InFlight(cycles[c])
    /\ metrics.totalTrades <
          Cardinality(TradedEntries(1)) + Cardinality(TradedEntries(2))
    /\ metrics.successfulTrades >= 1
    /\ metrics.failedTrades >= 1

----------------------------------------------------------------------------
(* Sells under the Consensus policy *)

\* Signal lists whose sells carry a quantity, as a registered rule's may: a
\* sell of one share, a sell without a quantity, two sells of one share
\* beside a more confident buy, and a buy.
SellSignalLists ==
    { <<CycleSignal("sell", 90, {1})>>,
      <<CycleSignal("sell", 90, {})>>,
      <<CycleSignal("buy", 95, {1}), CycleSignal("sell", 60, {1}),
        CycleSignal("sell", 60, {1})>>,
      <<CycleSignal("buy", 90, {1})>> }

\* One cycle called by hand over those signals, every flag set one way or
\* another, the first symbol held or not, orders accepted or refused.
NextSell ==
    \/ RunTradingCycle(1)
    \/ PositionsAnswer(1, FALSE)
    \/ QuoteAnswers(1, FALSE)
    \/ MarketChainAnswers(1)
    \/ \E decisions \in SellSignalLists : AnalysisAnswers(1, decisions)
    \/ \E threw \in BOOLEAN : TradeChainAnswers(1, threw)
    \/ \E threw \in BOOLEAN : TradeRecheckAnswers(1, threw)
    \/ \E threw \in BOOLEAN : TradeOrderAnswers(1, threw)

SpecSell == InitCycleOnly /\ [][NextSell]_vars

\* The processSymbol calls that read config.useConsensus as `consensus` and
\* called executeTrade for a sell.
SellEntries(consensus) ==
    { entry \in UNION { { cycles[c].log[k] : k \in 1..Len(cycles[c].log) } :
                          c \in CycleIds } :
        /\ entry.useConsensus = {consensus}
        /\ entry.trade.action = "sell" }

\* C36: under Consensus a sell decision carries no quantity, so with dry-run
\* off every consensus sell of a cycle is rejected as "Invalid quantity", and
\* no cycle under Consensus submits a sell order, whatever position is held.
C36_ConsensusNeverSells ==
    /\ \A entry \in SellEntries(TRUE) :
          /\ entry.trade.quantity = {}
          /\ entry.trade.request = {}
          /\ \A e \in entry.trade.atEntry : ~e.dryRun =>
                \E o \in entry.trade.outcome :
                   ~o.success /\ o.error = {"Invalid quantity"}
    /\ \A c \in CycleIds :
          /\ cycles[c].trade.action = "sell"
          /\ cycles[c].log[Len(cycles[c].log)].useConsensus = {TRUE}
          => cycles[c].trade.request = {}

\* A consensus sell formed while the symbol is held, with dry-run off: it
\* was rejected as "Invalid quantity".
C36_Witness ==
    \E entry \in SellEntries(TRUE) :
        /\ entry.trade.position # {}
        /\ \E e \in entry.trade.atEntry : ~e.dryRun
        /\ entry.end = "traded"
        /\ \E o \in entry.trade.outcome : o.error = {"Invalid quantity"}
        /\ metrics.failedTrades >= 1

\* Under Best the same signals do submit a sell order.
C36_BestSellsWitness ==
    \E entry \in SellEntries(FALSE) :
        /\ entry.trade.request # {}
        /\ \E o \in entry.trade.outcome : o.success

----------------------------------------------------------------------------
(* The rules that read a price history (SMA Strategy, RSI Strategy) under  *)
(* the market data of a cycle.  Prices are whole numbers; a confidence is  *)
(* the whole number of hundredths below the code's value, which compares   *)
(* with a whole minConfidence as the code's value does.                    *)

RECURSIVE SumPrices(_)
SumPrices(prices) ==
    IF prices = <<>> THEN 0 ELSE Head(prices) + SumPrices(Tail(prices))

\* prices.slice(-n)
LastPrices(prices, n) ==
    SubSeq(prices, Max(Len(prices) - n, 0) + 1, Len(prices))

Min(a, b) == IF a <= b THEN a ELSE b

\* A price history that climbs.
RisingPrices == [k \in 1..20 |-> 10 * k]

\* A market snapshot that carries a price history.
MarketDataWithHistory(symbol, currentPrice, position) ==
    [symbol |-> symbol, currentPrice |-> currentPrice, position |-> position,
     historicalData |-> {[prices |-> RisingPrices]}]

\* processSymbol's marketData: the symbol, the price, the volume, the
\* timestamp, the quote, the position and the chain - no historicalData.
MarketDataOf(symbol, currentPrice, position) ==
    [symbol |-> symbol, currentPrice |-> currentPrice, position |-> position,
     historicalData |-> {}]

\* A StrategyDecision as a rule's function returns it.
Decision(action, confidence, reason, quantity) ==
    [action |-> action, confidence |-> confidence, reason |-> reason,
     quantity |-> quantity, strategyName |-> {}]

\* calculatePositionSize(currentPrice, config.maxPositionSize), the
\* defaultConfig's maxPositionSize being 1000.
calculatePositionSize(price) == 1000 \div price

\* `position ? parseFloat(position.qty) : 0` is above 0
HoldsShares(position) == \E p \in position : p.qty > 0

simpleMovingAverageStrategy(marketData) ==
    IF \/ marketData.historicalData = {}
       \/ \E h \in marketData.historicalData : Len(h.prices) < 20
    THEN Decision("hold", 0, "Insufficient historical data for SMA analysis",
                  {})
    ELSE LET prices == (CHOOSE h \in marketData.historicalData : TRUE).prices
             shortSum == SumPrices(LastPrices(prices, 10))
             longSum == SumPrices(LastPrices(prices, 20))
             currentPrice == marketData.currentPrice
             hasPosition == HoldsShares(marketData.position)
         IN  IF 2 * shortSum > longSum /\ 10 * currentPrice > shortSum
                /\ ~hasPosition
             THEN Decision("buy",
                           Min(80, ((2 * shortSum - longSum) * 1000) \div longSum),
                           "Golden cross",
                           {calculatePositionSize(currentPrice)})
             ELSE IF 2 * shortSum < longSum /\ 10 * currentPrice < shortSum
                     /\ hasPosition
             THEN Decision("sell",
                           Min(80, ((longSum - 2 * shortSum) * 1000) \div longSum),
                           "Death cross", {})
             ELSE Decision("hold", 0, "No clear signal", {})

\* calculateRSI's loop over the first period + 1 prices: <<gains, losses>>.
RECURSIVE GainsAndLosses(_, _)
GainsAndLosses(prices, i) ==
    IF i = 0
    THEN <<0, 0>>
    ELSE LET before == GainsAndLosses(prices, i - 1)
             change == prices[i + 1] - prices[i]
         IN  IF change > 0
             THEN <<before[1] + change, before[2]>>
             ELSE <<before[1], before[2] - change>>

rsiStrategy(marketData) ==
    IF \/ marketData.historicalData = {}
       \/ \E h \in marketData.historicalData : Len(h.prices) < 15
    THEN Decision("hold", 0, "Insufficient historical data for RSI analysis",
                  {})
    ELSE LET prices == (CHOOSE h \in marketData.historicalData : TRUE).prices
             moves == GainsAndLosses(prices, 14)
             gains == moves[1]
             losses == moves[2]
             hasPosition == HoldsShares(marketData.position)
             \* rsi = 100 when avgLoss = 0, else 100 * gains / (gains + losses)
             oversold == losses # 0 /\ 100 * gains < 30 * (gains + losses)
             overbought == losses = 0 \/ 100 * gains > 70 * (gains + losses)
         IN  IF oversold /\ ~hasPosition
             THEN Decision("buy",
                           Min(90, ((30 * (gains + losses) - 100 * gains) * 100)
                                       \div (30 * (gains + losses))),
                           "RSI oversold",
                           {calculatePositionSize(marketData.currentPrice)})
             ELSE IF overbought /\ hasPosition
             THEN Decision("sell",
                           IF losses = 0 THEN 90
                           ELSE Min(90, ((100 * gains - 70 * (gains + losses)) * 100)
                                            \div (30 * (gains + losses))),
                           "RSI overbought", {})
             ELSE Decision("hold", 0, "RSI neutral", {})

\* strategy.function(marketData, strategy.config) for the two rules.
RuleFunction(name, marketData) ==
    IF name = "SMA Strategy" THEN simpleMovingAverageStrategy(marketData)
    ELSE rsiStrategy(marketData)

\* processSymbol has its quote: it builds the market data and calls
\* analyzeSymbol, which lists the enabled strategies and calls the first.
CycleAnalyzes(currentPrice, held) ==
    /\ analysis.pc # "evaluating"
    /\ LET enabledStrategies == getEnabledStrategies(strategies)
           symbol == ConfiguredSymbols[1]
       IN  analysis' = [pc |-> IF enabledStrategies = <<>>
                               THEN "returned" ELSE "evaluating",
                        registryAtCall |-> strategies,
                        enabledStrategies |-> enabledStrategies,
                        outcomes |-> <<>>, decisions |-> <<>>,
                        marketData |-> MarketDataOf(symbol, currentPrice,
                                           PositionOf(symbol, held))]
    /\ UNCHANGED <<strategies, selection, tradeVars, schedVars, botVars,
                   windowVars>>

\* The awaited rule settles with what its function computes from the
\* market data.
RuleSettles ==
    /\ analysis.pc = "evaluating"
    /\ LET k == Len(analysis.outcomes) + 1
           strategy == analysis.enabledStrategies[k]
           outcome == {RuleFunction(strategy.name, analysis.marketData)}
       IN  analysis' = [analysis EXCEPT
                           !.outcomes = Append(@, outcome),
                           !.decisions = Include(@, strategy, outcome),
                           !.pc = IF k = Len(analysis.enabledStrategies)
                                  THEN "returned" ELSE "evaluating"]
    /\ UNCHANGED <<strategies, selection, tradeVars, schedVars, botVars,
                   windowVars>>

\* updateStrategyConfig's arguments here: a rule is switched on or off, or
\* its minConfidence is set to 0, 0.2 or 0.6.
RuleConfigUpdates ==
    [enabled : BOOLEAN] \cup [minConfidence : {0, 20, DefaultMinConfidence}]

NextRules ==
    \/ \E currentPrice \in {50, 250}, held \in {0, 1} :
          CycleAnalyzes(currentPrice, held)
    \/ RuleSettles
    \/ \E name \in Rules, newConfig \in RuleConfigUpdates :
          UpdateStrategyConfig(name, newConfig)

SpecRules == InitStrategyOnly /\ [][NextRules]_vars

\* C37: the market data of a cycle has no price history, so in every cycle
\* the SMA rule and the RSI rule return hold with confidence 0; with a
\* positive minConfidence they contribute no signal, and no order of a cycle
\* originates from either rule (what their signals aggregate to, under
\* either policy, is nothing or a hold).
C37_HistoryRulesSilent ==
    analysis.pc # "idle" =>
       /\ \A k \in 1..Len(analysis.outcomes) :
             \A o \in analysis.outcomes[k] :
                o.action = "hold" /\ o.confidence = 0
       /\ \A k \in 1..Len(analysis.outcomes) :
             analysis.enabledStrategies[k].config.minConfidence > 0 =>
                \A j \in 1..Len(analysis.decisions) :
                   analysis.decisions[j].strategyName
                       # {analysis.enabledStrategies[k].name}
       /\ \A d \in getBestDecision(analysis.decisions)
                     \cup getConsensusDecision(analysis.decisions) :
             d.action = "hold"

\* Both rules were evaluated on a cycle's market data under a positive
\* minConfidence, with no position held: analyzeSymbol returned no decision.
C37_Witness ==
    /\ analysis.pc = "returned"
    /\ Len(analysis.outcomes) = Len(RuleNames)
    /\ \A k \in 1..Len(analysis.outcomes) :
          /\ analysis.enabledStrategies[k].config.minConfidence > 0
          /\ analysis.outcomes[k] # {}
    /\ analysis.marketData.position = {}
    /\ analysis.decisions = <<>>

\* Under minConfidence 0 the rule's hold is among the decisions.
C37_ZeroThresholdWitness ==
    /\ analysis.pc = "returned"
    /\ \E j \in 1..Len(analysis.decisions) :
          /\ analysis.decisions[j].action = "hold"
          /\ analysis.decisions[j].confidence = 0

----------------------------------------------------------------------------
(* Brokerage failures inside scheduled ticks *)

\* The scheduler driving the bot with a brokerage that may fail at every
\* call: the clock of shouldRun and of the market-status refresh,
\* getPositions, getQuote and createOrder.
NextFailing ==
    \/ \E t \in TickIds : Start(t)
    \/ Stop
    \/ \E t \in TickIds : TimerFires(t)
    \/ \E t \in TickIds, response \in ClockResponses, c \in CycleIds :
          TickReachesCallback(t, response, c)
    \/ \E t \in TickIds, response \in ClockResponses :
          RefreshClockAnswers(t, response)
    \/ \E c \in CycleIds, threw \in BOOLEAN : PositionsAnswer(c, threw)
    \/ \E c \in CycleIds, threw \in BOOLEAN : QuoteAnswers(c, threw)
    \/ \E c \in CycleIds :
          AnalysisAnswers(c, <<CycleSignal("buy", 90, {1})>>)
    \/ \E c \in CycleIds, threw \in BOOLEAN : TradeOrderAnswers(c, threw)

SpecFailing == InitScheduledOnly /\ [][NextFailing]_vars

\* C38: with the bot's callback registered, a brokerage failure inside a
\* scheduled tick never changes the scheduler's error counter or lastError:
\* both keep their initial values for every sequence of brokerage failures.
C38_ErrorsUntouched ==
    /\ status.errors = 0
    /\ status.lastError = {}

\* A tick has ended whose clock check failed (the local fallback let it
\* run) and whose cycle saw a brokerage call fail.
C38_Witness ==
    \E t \in TickIds, c \in CycleIds :
       /\ ticks[t].pc = "done"
       /\ ticks[t].clockFailed
       /\ cycles[c].tick = t
       /\ cycles[c].origin = "tick"
       /\ cycles[c].pc = "done"
       /\ cycles[c].failed # {}
       /\ status.totalRuns >= 1

\* A cycle of a tick in which getQuote failed for one symbol and createOrder
\* for the other.
C38_OrderFailureWitness ==
    \E c \in CycleIds :
       /\ cycles[c].origin = "tick"
       /\ cycles[c].pc = "done"
       /\ cycles[c].failed = {"getQuote"}
       /\ \E k \in 1..Len(cycles[c].log) :
             \E o \in cycles[c].log[k].trade.outcome : ~o.success

----------------------------------------------------------------------------
(* Contract positions and the derivative path *)

\* The derivative orders of the cycles the brokerage accepted for `contract`.
AcceptedOrders(contract) ==
    { ck \in CycleIds \X (1..MaxSymbols) :
        /\ ck[2] <= Len(cycles[ck[1]].log)
        /\ \E o \in cycles[ck[1]].log[ck[2]].trade.outcome :
              o.success /\ o.orderId # {} /\ o.symbol = contract }

\* The brokerage fills an accepted derivative order: the account holds one
\* more contract, in a position under the contract's symbol.
OptionsOrderFills(contract) ==
    /\ brokerPos[contract] < Cardinality(AcceptedOrders(contract))
    /\ brokerPos' = [brokerPos EXCEPT ![contract] = @ + 1]
    /\ UNCHANGED <<config, runs>>
    /\ UNCHANGED nonTradeVars

\* Cycles called by hand with a persisting buy signal on the derivative
\* path, the brokerage answering every call, and the fills of the orders.
NextContracts ==
    \/ \E c \in CycleIds : RunTradingCycle(c)
    \/ \E c \in CycleIds : PositionsAnswer(c, FALSE)
    \/ \E c \in CycleIds : QuoteAnswers(c, FALSE)
    \/ \E c \in CycleIds : MarketChainAnswers(c)
    \/ \E c \in CycleIds :
          AnalysisAnswers(c, <<CycleSignal("buy", 90, {1})>>)
    \/ \E c \in CycleIds : TradeChainAnswers(c, FALSE)
    \/ \E c \in CycleIds : TradeRecheckAnswers(c, FALSE)
    \/ \E c \in CycleIds : TradeOrderAnswers(c, FALSE)
    \/ \E contract \in ContractSymbols : OptionsOrderFills(contract)

\* The bot initialized with useOptions on, dry-run off and the best-decision
\* policy; no contract held, the second symbol's stock held or not.
InitContractsOnly ==
    /\ InitWindow /\ InitStrategy /\ InitCycle /\ Initialized
    /\ config = [InitConfig EXCEPT !.useConsensus = FALSE]
    /\ brokerPos \in [Watched \cup ContractSymbols -> {0, 1}]
    /\ \A s \in DOMAIN brokerPos :
          s # ConfiguredSymbols[Len(ConfiguredSymbols)] => brokerPos[s] = 0
    /\ runs = [i \in RunIds |-> IdleRun]

SpecContracts == InitContractsOnly /\ [][NextContracts]_vars

\* The executeTrade calls of the cycles that took the derivative path for a
\* buy and returned.
OptionBuys ==
    { entry \in UNION { { cycles[c].log[k] : k \in 1..Len(cycles[c].log) } :
                          c \in CycleIds } :
        /\ entry.trade.path = "options"
        /\ entry.trade.action = "buy"
        /\ entry.trade.pc = "returned" }

\* C39: the derivative path's position checks look only at the position
\* under the underlying stock's symbol: a contract held from an earlier
\* derivative order causes no rejection, so while the buy decision persists
\* and the underlying is not held, each cycle that finds a suitable contract
\* submits another single-contract order for the same underlying.  (No step
\* of SpecContracts changes a stock position, so "not held" can be read in
\* the current state.)
C39_ContractPositionsIgnored ==
    \A entry \in OptionBuys :
        brokerPos[entry.symbol] = 0 =>
           /\ \A o \in entry.trade.outcome :
                 o.error \cap {"Position already exists",
                               "Underlying stock position already exists"} = {}
           /\ entry.trade.bestOption # {} =>
                 \E request \in entry.trade.request,
                    bestOption \in entry.trade.bestOption :
                    /\ request.api = "createOptionsOrder"
                    /\ request.symbol = bestOption.symbol
                    /\ bestOption.underlying_symbol = entry.symbol
                    /\ request.qty = {1}
                    /\ request.side = "buy"

\* Cycle 1's order for a contract was accepted and filled; cycle 2 read the
\* positions with that contract among them and submitted another order for
\* the same underlying.
C39_Witness ==
    \E e1 \in { cycles[1].log[k] : k \in 1..Len(cycles[1].log) },
       e2 \in { cycles[2].log[k] : k \in 1..Len(cycles[2].log) } :
       /\ e1.symbol = e2.symbol
       /\ \E o \in e1.trade.outcome :
             /\ o.success /\ o.orderId # {}
             /\ cycles[2].positionMap[o.symbol] >= 1
       /\ \E request \in e2.trade.request : request.api = "createOptionsOrder"
       /\ \E o \in e2.trade.outcome : o.success

\* With the underlying's stock held the derivative buy is rejected.
C39_UnderlyingHeldWitness ==
    \E entry \in OptionBuys :
        /\ brokerPos[entry.symbol] = 1
        /\ \E o \in entry.trade.outcome : o.error = {"Position already exists"}

----------------------------------------------------------------------------
(* The positions snapshot of a cycle and the stock buy *)

\* The stock orders for `symbol` the brokerage accepted, from the cycles and
\* from buy().
AcceptedStockOrders(symbol) ==
    { <<"cycle", ck[1], ck[2]>> : ck \in
        { ck \in CycleIds \X (1..MaxSymbols) :
            /\ ck[2] <= Len(cycles[ck[1]].log)
            /\ cycles[ck[1]].log[ck[2]].trade.path = "stock"
            /\ \E o \in cycles[ck[1]].log[ck[2]].trade.outcome :
                  o.success /\ o.orderId # {} /\ o.symbol = symbol } }
    \cup { <<"manual", i, 0>> : i \in
        { i \in RunIds :
            /\ runs[i].path = "stock"
            /\ \E o \in runs[i].outcome :
                  o.success /\ o.orderId # {} /\ o.symbol = symbol } }

\* The brokerage fills an accepted stock buy of one share: the position in
\* the symbol grows.
StockOrderFills(symbol) ==
    /\ brokerPos[symbol] < Cardinality(AcceptedStockOrders(symbol))
    /\ brokerPos[symbol] < MaxHeld
    /\ brokerPos' = [brokerPos EXCEPT ![symbol] = @ + 1]
    /\ UNCHANGED <<config, runs>>
    /\ UNCHANGED nonTradeVars

\* Cycles called by hand that overlap, with a buy signal of one share on the
\* stock path, buy() called beside them, the brokerage answering every call
\* and filling the orders it accepted.
NextStale ==
    \/ \E c \in CycleIds : RunTradingCycle(c)
    \/ \E c \in CycleIds : PositionsAnswer(c, FALSE)
    \/ \E c \in CycleIds : QuoteAnswers(c, FALSE)
    \/ \E c \in CycleIds :
          AnalysisAnswers(c, <<CycleSignal("buy", 90, {1})>>)
    \/ \E c \in CycleIds : TradeOrderAnswers(c, FALSE)
    \/ \E s \in Symbols : Buy(1, s, 1)
    \/ ManualPositionAnswers(1)
    \/ OrderAnswers(1)
    \/ \E s \in Watched : StockOrderFills(s)

SpecStale == InitScheduledOnly /\ [][NextStale]_vars

C40_ManualBuyWitness ==
    \E c \in CycleIds : \E k \in 1..Len(cycles[c].log) :
        /\ cycles[c].positionMap[cycles[c].log[k].symbol] = 0
        /\ \E o \in cycles[c].log[k].order : o.held >= 1
        /\ \A b \in CycleIds \ {c} : cycles[b].pc = "idle"

====
